---------------------------- MODULE Spec2Model ----------------------------
(***************************************************************************)
(* Model of codex-switch: the profile registry, the secret store, the      *)
(* active/last pointers kept in two memento buckets, and the writer of the *)
(* external credential file (auth.json) with its timestamped backups.      *)
(*                                                                         *)
(* Every method of ProfileManager is an operator from a state record to a  *)
(* result record (the state after the call plus the value returned), so    *)
(* that a method calling another one composes the way the code does.  The  *)
(* actions of the specification apply these operators to the variables.    *)
(***************************************************************************)
EXTENDS Integers, Sequences, FiniteSets, TLC

VARIABLES
    profilesFile,          \* profiles.json in the extension's storage directory
    secrets,               \* context.secrets: key -> stored value
    memento,               \* context.globalState / context.workspaceState
    migratedLegacy,        \* globalState[MIGRATED_LEGACY_KEY]
    scopeNew,              \* setting codexSwitch.activeProfileScope
    scopeOld,              \* setting codexUsage.activeProfileScope
    legacyDir,             \* profiles.json of a sibling *.codex-switch directory
    lastSyncedProfileId,   \* ProfileManager.lastSyncedProfileId
    authFile,              \* the external credential file
    backups,               \* auth.json.bak.<suffix> files: suffix -> content
    now,                   \* the instant new Date() gives, in half seconds
    nextId,                \* the next value randomUUID() returns
    writer,                \* syncCodexAuthFile in progress: its position and locals
    lastCall,              \* a pure function's arguments and result
    lastLoad,              \* what loadAuthDataFromFile returned last
    tasks                  \* the asynchronous calls in progress: position and locals

vars == <<profilesFile, secrets, memento, migratedLegacy, scopeNew, scopeOld,
          legacyDir, lastSyncedProfileId, authFile, backups, now, nextId,
          writer, lastCall, lastLoad, tasks>>

-----------------------------------------------------------------------------
(* Bounds of the model.                                                    *)

\* Profiles ever created in one behaviour (ids are never reused).
MaxProfiles == 2
\* The last instant of the clock of SpecStore, in half seconds.
MaxTime == 1
\* SpecSync: the most completed writes, the largest retention passed, and the
\* last instant of its clock.
MaxWrites == 3
MaxRetention == 2
MaxSyncTime == 4
\* SpecSync: the instant at which daylight saving time ends, and the seconds
\* the wall clock was ahead until then.
DstEnd == 2
DstShift == 3
\* SpecRace: the number of calls that are started and run beside one another.
MaxCalls == 2
\* Spec: the number of times the extension host stops while a call is in
\* progress.
MaxStops == 1

-----------------------------------------------------------------------------
(* JavaScript values.                                                      *)

\* `undefined` in a slot that otherwise holds a string.
Undefined == "undefined"
\* `undefined` in a slot that otherwise holds a profile id.
NoId == 0
\* JavaScript truthiness of a string slot: undefined and "" are falsy.
Truthy(v) == v # Undefined /\ v # ""

ACTIVE_PROFILE_KEY == "codexSwitch.activeProfileId"
LAST_PROFILE_KEY == "codexSwitch.lastProfileId"
OLD_ACTIVE_PROFILE_KEY == "codexUsage.activeProfileId"
OLD_LAST_PROFILE_KEY == "codexUsage.lastProfileId"
OLD_SECRET_PREFIX == "codexUsage.profile."
NEW_SECRET_PREFIX == "codexSwitch.profile."

StateKeys == {ACTIVE_PROFILE_KEY, LAST_PROFILE_KEY,
              OLD_ACTIVE_PROFILE_KEY, OLD_LAST_PROFILE_KEY}
Scopes == {"global", "workspace"}

\* The retention syncCodexAuthFile falls back to when no option is passed.
DefaultMaxBackups == 10

-----------------------------------------------------------------------------
(* JSON values of the credential file.  An absent key is Undefined, which  *)
(* is what JSON.stringify makes of an undefined property.                  *)

NoTokens ==
    [isObject |-> FALSE, id_token |-> Undefined, access_token |-> Undefined,
     refresh_token |-> Undefined, account_id |-> Undefined, last_refresh |-> Undefined]
EmptyTokens == [NoTokens EXCEPT !.isObject = TRUE]
NoJson == [isObject |-> FALSE, OPENAI_API_KEY |-> Undefined, tokens |-> NoTokens]
EmptyJson == [NoJson EXCEPT !.isObject = TRUE]

\* A file of the credential directory: absent, half written (JSON.parse
\* throws on it), or whole: JSON.parse gives json.  The content
\* buildCodexAuthJson returns ends in a newline (line 68), so the file that
\* has all of it but that last byte is whole as well.
NoFile == [exists |-> FALSE, complete |-> FALSE, json |-> NoJson]
PartialFile == [exists |-> TRUE, complete |-> FALSE, json |-> NoJson]
WholeFile(json) == [exists |-> TRUE, complete |-> TRUE, json |-> json]

-----------------------------------------------------------------------------
(* The program state as one record, and the result of a call.              *)

Cur ==
    [profilesFile |-> profilesFile, secrets |-> secrets, memento |-> memento,
     migratedLegacy |-> migratedLegacy, scopeNew |-> scopeNew, scopeOld |-> scopeOld,
     legacyDir |-> legacyDir, lastSyncedProfileId |-> lastSyncedProfileId,
     authFile |-> authFile, backups |-> backups, now |-> now, nextId |-> nextId]

\* A call that returned `ret`, leaving the state `s`.
Res(s, ret) == [s |-> s, ret |-> ret, threw |-> FALSE]
\* A call that raised an exception, leaving the state `s`.
Throw(s, ret) == [s |-> s, ret |-> ret, threw |-> TRUE]

-----------------------------------------------------------------------------
(* types.ts                                                                *)

ProfileSummary(id, name, email, planType, accountId, createdAt, updatedAt) ==
    [id |-> id, name |-> name, email |-> email, planType |-> planType,
     accountId |-> accountId, createdAt |-> createdAt, updatedAt |-> updatedAt]

\* `undefined` in a slot that otherwise holds a string of characters.
UndefinedStr == <<Undefined>>

NoProfile == ProfileSummary(NoId, Undefined, UndefinedStr, Undefined, Undefined, 0, 0)
\* JSON null as an element of the registry array: it has no property, and
\* reading one raises a TypeError.
NullProfile == ProfileSummary(-1, Undefined, UndefinedStr, Undefined, Undefined, 0, 0)
IsNull(profile) == profile = NullProfile

\* A value of AuthData with every property undefined (the placeholder of `null`).
NoAuthData ==
    [idToken |-> Undefined, accessToken |-> Undefined, refreshToken |-> Undefined,
     accountId |-> Undefined, email |-> UndefinedStr, planType |-> Undefined,
     authJson |-> NoJson]

\* ProfileTokens: what is stored in the secret store for one profile.
ProfileTokens(authData) ==
    [idToken |-> authData.idToken, accessToken |-> authData.accessToken,
     refreshToken |-> authData.refreshToken, accountId |-> authData.accountId,
     authJson |-> authData.authJson]

NoTokensValue == ProfileTokens(NoAuthData)

\* A value of the secret store: nothing, a string that is not JSON, or the
\* JSON text of a ProfileTokens object.
NoSecret == [present |-> FALSE, parsable |-> FALSE, value |-> NoTokensValue]
GarbageSecret == [present |-> TRUE, parsable |-> FALSE, value |-> NoTokensValue]
\* JSON.stringify(tokens): undefined properties are dropped, which leaves
\* them undefined when the text is parsed again.
JsonStringifyTokens(tokens) == [present |-> TRUE, parsable |-> TRUE, value |-> tokens]

-----------------------------------------------------------------------------
(* profile-manager.ts: the registry file.                                  *)

NoProfilesFile == [exists |-> FALSE, shape |-> "versioned", profiles |-> <<>>]
VersionedFile(profiles) == [exists |-> TRUE, shape |-> "versioned", profiles |-> profiles]

\* parseProfilesFile: the three accepted shapes give their list, any other
\* JSON value gives the empty list, and text that is not JSON throws.
parseProfilesFile(raw) ==
    CASE raw.shape = "invalid" -> [threw |-> TRUE, profiles |-> <<>>]
      [] raw.shape = "array" -> [threw |-> FALSE, profiles |-> raw.profiles]
      [] raw.shape = "bare" -> [threw |-> FALSE, profiles |-> raw.profiles]
      [] raw.shape = "versioned" -> [threw |-> FALSE, profiles |-> raw.profiles]
      [] OTHER -> [threw |-> FALSE, profiles |-> <<>>]

readProfilesFile(s) ==
    IF ~s.profilesFile.exists THEN <<>>
    ELSE LET parsed == parseProfilesFile(s.profilesFile)
         IN IF parsed.threw THEN <<>> ELSE parsed.profiles

writeProfilesFile(s, profiles) == [s EXCEPT !.profilesFile = VersionedFile(profiles)]

secretKey(profileId) == <<NEW_SECRET_PREFIX, profileId>>
legacySecretKey(profileId) == <<OLD_SECRET_PREFIX, profileId>>

\* The rank the candidate directories are sorted by.
LegacyRank(dirName) ==
    IF dirName = "codex-switch" THEN 0 ELSE IF dirName = "codex-stats" THEN 1 ELSE 2

\* candidates.sort(rank(a) - rank(b)): a stable sort on three ranks.
SortCandidates(dirs) ==
    SelectSeq(dirs, LAMBDA d : LegacyRank(d.name) = 0)
        \o SelectSeq(dirs, LAMBDA d : LegacyRank(d.name) = 1)
        \o SelectSeq(dirs, LAMBDA d : LegacyRank(d.name) = 2)

\* The loop over the candidates: the first one whose registry file exists,
\* parses and is not empty is written as the registry.
RECURSIVE AdoptLegacy(_, _)
AdoptLegacy(s, candidates) ==
    IF candidates = <<>> THEN s
    ELSE LET file == Head(candidates).file
             legacy == parseProfilesFile(file)
         IN IF ~file.exists \/ legacy.threw \/ Len(legacy.profiles) = 0
            THEN AdoptLegacy(s, Tail(candidates))
            ELSE writeProfilesFile(s, legacy.profiles)

\* The mutant does not look at the flag: it migrates whenever the registry is empty.
tryMigrateLegacyProfilesOnce_EveryTime(s) ==
    IF Len(readProfilesFile(s)) > 0 THEN [s EXCEPT !.migratedLegacy = TRUE]
    ELSE LET candidates ==
                 SortCandidates(SelectSeq(s.legacyDir,
                     LAMBDA d : d.name \in {"codex-switch", "codex-stats"}))
         IN [AdoptLegacy(s, candidates) EXCEPT !.migratedLegacy = TRUE]

tryMigrateLegacyProfilesOnce(s) ==
    IF s.migratedLegacy THEN s
    ELSE IF Len(readProfilesFile(s)) > 0 THEN [s EXCEPT !.migratedLegacy = TRUE]
    ELSE LET candidates ==
                 SortCandidates(SelectSeq(s.legacyDir,
                     LAMBDA d : d.name \in {"codex-switch", "codex-stats"}))
         IN [AdoptLegacy(s, candidates) EXCEPT !.migratedLegacy = TRUE]

-----------------------------------------------------------------------------
(* Strings whose characters matter (e-mail addresses) are sequences of     *)
(* one-character strings, so that trimming and lower-casing are computed.  *)

\* String(email || ''): undefined and '' both give the empty string.
OrEmpty(str) == IF str = UndefinedStr THEN <<>> ELSE str

IsSpace(c) == c = " "

RECURSIVE TrimStart(_)
TrimStart(str) ==
    IF str # <<>> /\ IsSpace(Head(str)) THEN TrimStart(Tail(str)) ELSE str

RECURSIVE TrimEnd(_)
TrimEnd(str) ==
    IF str # <<>> /\ IsSpace(str[Len(str)])
    THEN TrimEnd(SubSeq(str, 1, Len(str) - 1)) ELSE str

Trim(str) == TrimEnd(TrimStart(str))

LowerChar(c) ==
    CASE c = "A" -> "a" [] c = "B" -> "b" [] c = "K" -> "k" [] c = "N" -> "n"
      [] c = "O" -> "o" [] c = "U" -> "u" [] c = "W" -> "w" [] c = "X" -> "x"
      [] OTHER -> c

ToLowerCase(str) == [i \in 1..Len(str) |-> LowerChar(str[i])]

normalizeEmail(email) == ToLowerCase(Trim(OrEmpty(email)))

\* The mutant compares the e-mails as they are written.
matchesAuth_RawEmail(profile, authData) ==
    \/ /\ Truthy(authData.accountId) /\ Truthy(profile.accountId)
       /\ authData.accountId = profile.accountId
    \/ /\ OrEmpty(profile.email) # <<>> /\ OrEmpty(authData.email) # <<>>
       /\ profile.email # <<"u", "n", "k", "n", "o", "w", "n">>
       /\ authData.email # <<"u", "n", "k", "n", "o", "w", "n">>
       /\ profile.email = authData.email

matchesAuth(profile, authData) ==
    IF /\ Truthy(authData.accountId) /\ Truthy(profile.accountId)
       /\ authData.accountId = profile.accountId
    THEN TRUE
    ELSE LET pe == normalizeEmail(profile.email)
             ae == normalizeEmail(authData.email)
         IN IF pe = <<>> \/ ae = <<>> THEN FALSE
            ELSE IF pe = <<"u", "n", "k", "n", "o", "w", "n">>
                    \/ ae = <<"u", "n", "k", "n", "o", "w", "n">> THEN FALSE
            ELSE pe = ae

\* Array.prototype.find / findIndex over the results of the test on each
\* element: the first index whose element passes, or 0.
FindIndex(tests) ==
    IF \E i \in 1..Len(tests) : tests[i]
    THEN CHOOSE i \in 1..Len(tests) : tests[i] /\ \A j \in 1..(i - 1) : ~tests[j]
    ELSE 0

-----------------------------------------------------------------------------
(* profile-manager.ts: the profile store.                                  *)

\* The order String.prototype.localeCompare gives the names of the model; an
\* undefined argument is compared as the string "undefined".
NameOrder == <<"home", Undefined, "work">>
NameRank(name) == FindIndex([i \in 1..Len(NameOrder) |-> NameOrder[i] = name])
localeCompare(a, b) == NameRank(a) - NameRank(b)

\* [...profiles].sort(by name): a stable insertion sort.
RECURSIVE InsertByName(_, _)
InsertByName(sorted, p) ==
    IF sorted = <<>> THEN <<p>>
    ELSE IF localeCompare(p.name, Head(sorted).name) < 0 THEN <<p>> \o sorted
    ELSE <<Head(sorted)>> \o InsertByName(Tail(sorted), p)

RECURSIVE SortByName(_)
SortByName(profiles) ==
    IF profiles = <<>> THEN <<>>
    ELSE InsertByName(SortByName(SubSeq(profiles, 1, Len(profiles) - 1)),
                      profiles[Len(profiles)])

\* The comparator evaluates a.name.localeCompare(b.name) with every element
\* but the first as `a` at least once, and with the first as `b`: an element
\* without a name raises a TypeError as `a`, null raises it as either, outside
\* the try of readProfilesFile.  One element alone is never compared.
SortThrows(profiles) ==
    \/ \E i \in 2..Len(profiles) : profiles[i].name = Undefined
    \/ Len(profiles) >= 2 /\ \E i \in 1..Len(profiles) : IsNull(profiles[i])

\* find, findIndex and filter call their test on the elements in order, the
\* first two up to the first match: the test reads a property of the
\* element, which raises a TypeError on null.
FindThrows(profiles, tests) ==
    \E i \in 1..Len(profiles) : IsNull(profiles[i]) /\ \A j \in 1..(i - 1) : ~tests[j]

listProfiles(s) ==
    LET Sorted(s1) ==
            LET Sort(profiles) ==
                    IF SortThrows(profiles) THEN Throw(s1, <<>>)
                    ELSE Res(s1, SortByName(profiles))
            IN Sort(readProfilesFile(s1))
    IN Sorted(tryMigrateLegacyProfilesOnce(s))

getProfile(s, profileId) ==
    LET Find(r) ==
            LET tests == [i \in 1..Len(r.ret) |-> r.ret[i].id = profileId]
                idx == FindIndex(tests)
            IN IF r.threw \/ FindThrows(r.ret, tests)
               THEN Throw(r.s, [found |-> FALSE, profile |-> NoProfile])
               ELSE Res(r.s, [found |-> idx # 0,
                              profile |-> IF idx # 0 THEN r.ret[idx] ELSE NoProfile])
    IN Find(listProfiles(s))

findDuplicateProfile(s, authData) ==
    LET profiles == readProfilesFile(s)
        tests == [i \in 1..Len(profiles) |-> matchesAuth(profiles[i], authData)]
        idx == FindIndex(tests)
    IN [found |-> idx # 0, profile |-> IF idx # 0 THEN profiles[idx] ELSE NoProfile,
        threw |-> FindThrows(profiles, tests)]

secretsStore(s, key, value) == [s EXCEPT !.secrets[key] = value]
secretsDelete(s, key) == [s EXCEPT !.secrets[key] = NoSecret]

\* The mutant updates the registry entry and stores no tokens.
replaceProfileAuth_MetadataOnly(s, profileId, authData) ==
    LET profiles == readProfilesFile(s)
        tests == [i \in 1..Len(profiles) |-> profiles[i].id = profileId]
        idx == FindIndex(tests)
    IN IF FindThrows(profiles, tests) THEN Throw(s, FALSE)
       ELSE IF idx = 0 THEN Res(s, FALSE)
       ELSE LET entry == [profiles[idx] EXCEPT !.email = authData.email,
                                               !.planType = authData.planType,
                                               !.accountId = authData.accountId,
                                               !.updatedAt = s.now]
            IN Res(writeProfilesFile(s, [profiles EXCEPT ![idx] = entry]), TRUE)

\* The mutant rebuilds the entry from the credential instead of spreading the old one.
replaceProfileAuth_Rebuild(s, profileId, authData) ==
    LET profiles == readProfilesFile(s)
        tests == [i \in 1..Len(profiles) |-> profiles[i].id = profileId]
        idx == FindIndex(tests)
    IN IF FindThrows(profiles, tests) THEN Throw(s, FALSE)
       ELSE IF idx = 0 THEN Res(s, FALSE)
       ELSE LET entry == ProfileSummary(profileId, "home", authData.email,
                             authData.planType, authData.accountId, s.now, s.now)
                s1 == writeProfilesFile(s, [profiles EXCEPT ![idx] = entry])
            IN Res(secretsStore(s1, secretKey(profileId),
                                JsonStringifyTokens(ProfileTokens(authData))), TRUE)

replaceProfileAuth(s, profileId, authData) ==
    LET profiles == readProfilesFile(s)
        tests == [i \in 1..Len(profiles) |-> profiles[i].id = profileId]
        idx == FindIndex(tests)
    IN IF FindThrows(profiles, tests) THEN Throw(s, FALSE)
       ELSE IF idx = 0 THEN Res(s, FALSE)
       ELSE LET entry == [profiles[idx] EXCEPT !.email = authData.email,
                                               !.planType = authData.planType,
                                               !.accountId = authData.accountId,
                                               !.updatedAt = s.now]
                s1 == writeProfilesFile(s, [profiles EXCEPT ![idx] = entry])
            IN Res(secretsStore(s1, secretKey(profileId),
                                JsonStringifyTokens(ProfileTokens(authData))), TRUE)

\* The mutant keeps the credential's id token in the registry entry.
createProfile_TokenInRegistry(s, name, authData) ==
    LET id == s.nextId
        profile == ProfileSummary(id, name, authData.email, authData.planType,
                                  authData.idToken, s.now, s.now)
        s1 == writeProfilesFile(s, Append(readProfilesFile(s), profile))
        s2 == secretsStore(s1, secretKey(id), JsonStringifyTokens(ProfileTokens(authData)))
    IN Res([s2 EXCEPT !.nextId = id + 1], profile)

createProfile(s, name, authData) ==
    LET id == s.nextId
        profile == ProfileSummary(id, name, authData.email, authData.planType,
                                  authData.accountId, s.now, s.now)
        s1 == writeProfilesFile(s, Append(readProfilesFile(s), profile))
        s2 == secretsStore(s1, secretKey(id), JsonStringifyTokens(ProfileTokens(authData)))
    IN Res([s2 EXCEPT !.nextId = id + 1], profile)

renameProfile(s, profileId, newName) ==
    LET profiles == readProfilesFile(s)
        tests == [i \in 1..Len(profiles) |-> profiles[i].id = profileId]
        idx == FindIndex(tests)
    IN IF FindThrows(profiles, tests) THEN Throw(s, FALSE)
       ELSE IF idx = 0 THEN Res(s, FALSE)
       ELSE LET entry == [profiles[idx] EXCEPT !.name = newName, !.updatedAt = s.now]
            IN Res(writeProfilesFile(s, [profiles EXCEPT ![idx] = entry]), TRUE)

\* JSON.parse of a stored secret: text that is not JSON throws.
loadAuthData(s, profileId) ==
    LET Load(r) ==
            LET new == r.s.secrets[secretKey(profileId)]
                raw == IF new.present THEN new ELSE r.s.secrets[legacySecretKey(profileId)]
            IN IF r.threw THEN Throw(r.s, [ok |-> FALSE, data |-> NoAuthData])
               ELSE IF ~r.ret.found THEN Res(r.s, [ok |-> FALSE, data |-> NoAuthData])
               ELSE IF ~raw.present THEN Res(r.s, [ok |-> FALSE, data |-> NoAuthData])
               ELSE IF ~raw.parsable THEN Res(r.s, [ok |-> FALSE, data |-> NoAuthData])
               ELSE Res(r.s, [ok |-> TRUE,
                              data |-> [idToken |-> raw.value.idToken,
                                        accessToken |-> raw.value.accessToken,
                                        refreshToken |-> raw.value.refreshToken,
                                        accountId |-> raw.value.accountId,
                                        email |-> r.ret.profile.email,
                                        planType |-> r.ret.profile.planType,
                                        authJson |-> raw.value.authJson]])
    IN Load(getProfile(s, profileId))

-----------------------------------------------------------------------------
(* codex-auth-sync.ts: the writer of the external credential file.         *)

\* YYYYMMDD-HHMMSS from the getters of local time (getFullYear ... getSeconds):
\* the wall clock cut to whole seconds.  The clock of the model counts half
\* seconds, so two consecutive instants can share a suffix.  The wall clock
\* is DstShift seconds ahead until daylight saving time ends at instant
\* DstEnd, where it falls back: a later instant can have a smaller suffix.
backupSuffix(t) == IF t < DstEnd THEN t \div 2 + DstShift ELSE t \div 2
\* The suffixes a backup can have.
BackupSuffixes == {backupSuffix(t) : t \in 0..MaxSyncTime}

\* The outcome of each file-system call of one syncCodexAuthFile.  A
\* copyFileSync that fails does so either before it opens its destination,
\* which it then leaves alone, or after it opened and truncated it, and then
\* it unlinks the destination (backupUnlinked for the backup copy,
\* copyUnlinked for the fallback copy) or, when that unlink fails too, leaves
\* what it had written: a part JSON.parse throws on (backupPartial,
\* copyPartial) or all but the final newline (copyCut; a backup cut there is
\* the backup a completed copy leaves, and the error is swallowed: it is the
\* outcome backupOk).
\* `stuck` holds the suffixes of the backups pruneAuthBackups cannot remove:
\* statSync or unlinkSync throws, or the entry is not a file (lines 39-45).
IoOk ==
    [mkdirOk |-> TRUE, backupOk |-> TRUE, backupUnlinked |-> FALSE,
     backupPartial |-> FALSE, stuck |-> {}, tmpOk |-> TRUE, renameOk |-> TRUE,
     copyOk |-> TRUE, copyUnlinked |-> FALSE, copyPartial |-> FALSE,
     copyCut |-> FALSE]
\* Every combination with a different outcome: mkdirSync throws; or the
\* backup copy succeeds, fails, fails and unlinks, or fails and leaves a
\* truncated backup; any backups are stuck; and the temporary file cannot be
\* written, the rename succeeds, the copy does, or the copy fails and leaves
\* the target as it was, no target, a truncated target, or the new content
\* less its final newline.
IoOutcomes ==
    {[IoOk EXCEPT !.mkdirOk = FALSE]} \cup
    {[mkdirOk |-> TRUE, backupOk |-> b[1], backupUnlinked |-> b[2],
      backupPartial |-> b[3], stuck |-> st, tmpOk |-> r[1], renameOk |-> r[2],
      copyOk |-> r[3], copyUnlinked |-> r[4], copyPartial |-> r[5],
      copyCut |-> r[6]] :
        b \in {<<TRUE, FALSE, FALSE>>, <<FALSE, FALSE, FALSE>>,
               <<FALSE, TRUE, FALSE>>, <<FALSE, FALSE, TRUE>>},
        st \in SUBSET BackupSuffixes,
        r \in {<<FALSE, TRUE, TRUE, FALSE, FALSE, FALSE>>,
               <<TRUE, TRUE, TRUE, FALSE, FALSE, FALSE>>,
               <<TRUE, FALSE, TRUE, FALSE, FALSE, FALSE>>,
               <<TRUE, FALSE, FALSE, FALSE, FALSE, FALSE>>,
               <<TRUE, FALSE, FALSE, TRUE, FALSE, FALSE>>,
               <<TRUE, FALSE, FALSE, FALSE, TRUE, FALSE>>,
               <<TRUE, FALSE, FALSE, FALSE, FALSE, TRUE>>}}
\* The outcomes when nothing is to be pruned: a call with the default
\* retention beside fewer backups than that.
IoUnpruned == {io \in IoOutcomes : io.stuck = {}}

\* opts?.maxBackups: not given, or a number.
NoOpts == [given |-> FALSE, maxBackups |-> 0]
Opts(n) == [given |-> TRUE, maxBackups |-> n]

\* The mutant writes `value || fallback`: a retention of 0 gives the fallback.
coerceMaxBackups_ZeroIsFallback(opts, fallback) ==
    IF ~opts.given \/ opts.maxBackups = 0 THEN fallback
    ELSE IF opts.maxBackups < 0 THEN 0 ELSE opts.maxBackups

\* Number(undefined) is NaN, which gives the fallback; a number is floored
\* (the model has integers only) and raised to 0.
coerceMaxBackups(opts, fallback) ==
    IF ~opts.given THEN fallback
    ELSE IF opts.maxBackups < 0 THEN 0 ELSE opts.maxBackups

\* The names sorted in descending order; all after the first maxBackups are
\* unlinked, except those that cannot be: the failure is swallowed.
pruneAuthBackups(bk, maxBackups, io) ==
    {b \in bk : \/ Cardinality({c \in bk : c.suffix > b.suffix}) < maxBackups
                \/ b.suffix \in io.stuck}

\* JSON.parse(JSON.stringify(json)): a new object with the properties of
\* `json`, and a new tokens object with the properties of its tokens.
JsonCopy(json) ==
    [isObject |-> json.isObject, OPENAI_API_KEY |-> json.OPENAI_API_KEY,
     tokens |-> [isObject |-> json.tokens.isObject,
                 id_token |-> json.tokens.id_token,
                 access_token |-> json.tokens.access_token,
                 refresh_token |-> json.tokens.refresh_token,
                 account_id |-> json.tokens.account_id,
                 last_refresh |-> json.tokens.last_refresh]]

\* Lines 52-55.  A call works on two objects: `own`, the one the record's
\* authJson refers to, and `copy`, the one line 54 or line 55 makes.  The
\* function assigns to `copy`; the mutant takes the record's own object as
\* the payload when there is one.
payloadOf_Own(authData) == IF authData.authJson.isObject THEN "own" ELSE "copy"
payloadOf(authData) == "copy"

\* Lines 57-67 on the object `payload`: a tokens object is made when there is
\* none, and the record's tokens are assigned to it.
AssignTokens(payload, authData) ==
    LET tokens == IF payload.tokens.isObject THEN payload.tokens ELSE EmptyTokens
        written == [tokens EXCEPT !.id_token = authData.idToken,
                                  !.access_token = authData.accessToken,
                                  !.refresh_token = authData.refreshToken]
    IN [payload EXCEPT !.tokens =
            IF Truthy(authData.accountId)
            THEN [written EXCEPT !.account_id = authData.accountId]
            ELSE written]

\* The two objects when the function returns.
BuiltObjects(authData) ==
    LET objects == [own |-> authData.authJson,
                    copy |-> IF authData.authJson.isObject
                             THEN JsonCopy(authData.authJson) ELSE EmptyJson]
    IN [objects EXCEPT ![payloadOf(authData)] = AssignTokens(@, authData)]

\* Line 68: the text of the payload (the model keeps the value it denotes).
buildCodexAuthJson(authData) == BuiltObjects(authData)[payloadOf(authData)]

\* The caller's record after buildCodexAuthJson returned: its authJson
\* refers to `own`, with whatever the function assigned to that object.
recordAfterBuild(authData) == [authData EXCEPT !.authJson = BuiltObjects(authData).own]

\* fs.copyFileSync(authPath, backupPath): a backup of the same second is overwritten.
CopyToBackup(bk, file, suffix) ==
    {b \in bk : b.suffix # suffix} \cup {[suffix |-> suffix, file |-> file]}

\* The mutant prunes but never copies the existing file.
BackupAndPrune_PruneOnly(s, maxBackups, io) ==
    [s EXCEPT !.backups = pruneAuthBackups(s.backups, maxBackups, io)]

\* Lines 84-94: the backup of the existing file, then the pruning.  A copy
\* that fails after it opened the backup path takes the backup of the same
\* name with it, or leaves a truncated file under that name.
BackupAndPrune(s, maxBackups, io) ==
    LET suffix == backupSuffix(s.now)
        bk1 == IF ~(maxBackups > 0 /\ s.authFile.exists) THEN s.backups
               ELSE IF io.backupOk THEN CopyToBackup(s.backups, s.authFile, suffix)
               ELSE IF io.backupUnlinked THEN {b \in s.backups : b.suffix # suffix}
               ELSE IF io.backupPartial THEN CopyToBackup(s.backups, PartialFile, suffix)
               ELSE s.backups
    IN [s EXCEPT !.backups = pruneAuthBackups(bk1, maxBackups, io)]

\* Lines 96-116: the temporary file, then rename, or copy when rename fails.
\* The temporary file has a name of its own and is not part of the state
\* record.  A fallback copy that fails after it opened the target leaves no
\* target at all, a truncated one, or one with the content less its final
\* newline; the call throws in each case.
ReplaceTarget(s, content, io) ==
    IF ~io.tmpOk THEN Throw(s, FALSE)
    ELSE IF io.renameOk THEN Res([s EXCEPT !.authFile = WholeFile(content)], TRUE)
    ELSE IF io.copyOk THEN Res([s EXCEPT !.authFile = WholeFile(content)], TRUE)
    ELSE IF io.copyUnlinked THEN Throw([s EXCEPT !.authFile = NoFile], FALSE)
    ELSE IF io.copyPartial THEN Throw([s EXCEPT !.authFile = PartialFile], FALSE)
    ELSE IF io.copyCut THEN Throw([s EXCEPT !.authFile = WholeFile(content)], FALSE)
    ELSE Throw(s, FALSE)

syncCodexAuthFile(s, authData, opts, io) ==
    IF ~io.mkdirOk THEN Throw(s, FALSE)
    ELSE LET content == buildCodexAuthJson(authData)
             maxBackups == coerceMaxBackups(opts, DefaultMaxBackups)
         IN ReplaceTarget(BackupAndPrune(s, maxBackups, io), content, io)

-----------------------------------------------------------------------------
(* profile-manager.ts: the active and last pointers.                       *)

getStateBucket(s) ==
    LET scope == IF Truthy(s.scopeNew) THEN s.scopeNew ELSE s.scopeOld
    IN IF scope = "workspace" THEN "workspace" ELSE "global"

getLegacyStateBucket(s) ==
    IF s.scopeOld = "workspace" THEN "workspace" ELSE "global"

\* Memento.get and Memento.update; updating to undefined removes the key.
bucketGet(s, bucket, key) == s.memento[bucket][key]
bucketUpdate(s, bucket, key, value) == [s EXCEPT !.memento[bucket][key] = value]

\* The mutant migrates the legacy key and leaves it in the legacy bucket.
getActiveProfileId_KeepLegacy(s) ==
    LET bucket == getStateBucket(s)
        v == bucketGet(s, bucket, ACTIVE_PROFILE_KEY)
        legacyBucket == getLegacyStateBucket(s)
        old == IF bucketGet(s, bucket, OLD_ACTIVE_PROFILE_KEY) # NoId
               THEN bucketGet(s, bucket, OLD_ACTIVE_PROFILE_KEY)
               ELSE bucketGet(s, legacyBucket, OLD_ACTIVE_PROFILE_KEY)
    IN IF v # NoId THEN Res(s, v)
       ELSE IF old # NoId
       THEN Res(bucketUpdate(bucketUpdate(s,
                    bucket, ACTIVE_PROFILE_KEY, old),
                    bucket, OLD_ACTIVE_PROFILE_KEY, NoId), old)
       ELSE Res(s, NoId)

getActiveProfileId(s) ==
    LET bucket == getStateBucket(s)
        v == bucketGet(s, bucket, ACTIVE_PROFILE_KEY)
        legacyBucket == getLegacyStateBucket(s)
        old == IF bucketGet(s, bucket, OLD_ACTIVE_PROFILE_KEY) # NoId
               THEN bucketGet(s, bucket, OLD_ACTIVE_PROFILE_KEY)
               ELSE bucketGet(s, legacyBucket, OLD_ACTIVE_PROFILE_KEY)
    IN IF v # NoId THEN Res(s, v)
       ELSE IF old # NoId
       THEN Res(bucketUpdate(bucketUpdate(bucketUpdate(s,
                    bucket, ACTIVE_PROFILE_KEY, old),
                    bucket, OLD_ACTIVE_PROFILE_KEY, NoId),
                    legacyBucket, OLD_ACTIVE_PROFILE_KEY, NoId), old)
       ELSE Res(s, NoId)

getLastProfileId(s) ==
    LET bucket == getStateBucket(s)
        v == bucketGet(s, bucket, LAST_PROFILE_KEY)
        legacyBucket == getLegacyStateBucket(s)
        old == IF bucketGet(s, bucket, OLD_LAST_PROFILE_KEY) # NoId
               THEN bucketGet(s, bucket, OLD_LAST_PROFILE_KEY)
               ELSE bucketGet(s, legacyBucket, OLD_LAST_PROFILE_KEY)
    IN IF v # NoId THEN Res(s, v)
       ELSE IF old # NoId
       THEN Res(bucketUpdate(bucketUpdate(bucketUpdate(s,
                    bucket, LAST_PROFILE_KEY, old),
                    bucket, OLD_LAST_PROFILE_KEY, NoId),
                    legacyBucket, OLD_LAST_PROFILE_KEY, NoId), old)
       ELSE Res(s, NoId)

setLastProfileId(s, profileId) ==
    LET bucket == getStateBucket(s)
    IN bucketUpdate(bucketUpdate(s, bucket, LAST_PROFILE_KEY, profileId),
                    bucket, OLD_LAST_PROFILE_KEY, NoId)

\* The mutant moves the pointers before it knows that the tokens load.
setActiveProfileId_NoTokenCheck(s, profileId, io) ==
    LET bucket == getStateBucket(s)
        prev == IF bucketGet(s, bucket, ACTIVE_PROFILE_KEY) # NoId
                THEN bucketGet(s, bucket, ACTIVE_PROFILE_KEY)
                ELSE bucketGet(s, bucket, OLD_ACTIVE_PROFILE_KEY)
        Synced(w) ==
            IF w.threw THEN Throw(w.s, FALSE)
            ELSE Res([w.s EXCEPT !.lastSyncedProfileId = profileId], TRUE)
        s2 == IF prev # NoId /\ profileId # NoId /\ prev # profileId
              THEN setLastProfileId(s, prev) ELSE s
        s3 == bucketUpdate(bucketUpdate(s2, bucket, ACTIVE_PROFILE_KEY, profileId),
                           bucket, OLD_ACTIVE_PROFILE_KEY, NoId)
        Activate(loaded) ==
            IF profileId # NoId /\ loaded.threw THEN Throw(loaded.s, FALSE)
            ELSE IF profileId # NoId /\ ~loaded.ret.ok THEN Res(loaded.s, FALSE)
            ELSE IF profileId # NoId
            THEN Synced(syncCodexAuthFile(loaded.s, loaded.ret.data, NoOpts, io))
            ELSE Res(loaded.s, TRUE)
    IN Activate(IF profileId # NoId THEN loadAuthData(s3, profileId)
                ELSE Res(s3, [ok |-> FALSE, data |-> NoAuthData]))

\* The mutant records the new pointers but never writes the credential file.
setActiveProfileId_NoSync(s, profileId, io) ==
    LET bucket == getStateBucket(s)
        prev == IF bucketGet(s, bucket, ACTIVE_PROFILE_KEY) # NoId
                THEN bucketGet(s, bucket, ACTIVE_PROFILE_KEY)
                ELSE bucketGet(s, bucket, OLD_ACTIVE_PROFILE_KEY)
        Synced(w) ==
            IF w.threw THEN Throw(w.s, FALSE)
            ELSE Res([w.s EXCEPT !.lastSyncedProfileId = profileId], TRUE)
        Activate(loaded) ==
            LET s2 == IF prev # NoId /\ profileId # NoId /\ prev # profileId
                      THEN setLastProfileId(loaded.s, prev) ELSE loaded.s
                s3 == bucketUpdate(bucketUpdate(s2, bucket, ACTIVE_PROFILE_KEY, profileId),
                                   bucket, OLD_ACTIVE_PROFILE_KEY, NoId)
            IN IF profileId # NoId /\ loaded.threw THEN Throw(loaded.s, FALSE)
               ELSE IF profileId # NoId /\ ~loaded.ret.ok THEN Res(loaded.s, FALSE)
               ELSE Res(s3, TRUE)
    IN Activate(IF profileId # NoId THEN loadAuthData(s, profileId)
                ELSE Res(s, [ok |-> FALSE, data |-> NoAuthData]))

setActiveProfileId(s, profileId, io) ==
    LET bucket == getStateBucket(s)
        prev == IF bucketGet(s, bucket, ACTIVE_PROFILE_KEY) # NoId
                THEN bucketGet(s, bucket, ACTIVE_PROFILE_KEY)
                ELSE bucketGet(s, bucket, OLD_ACTIVE_PROFILE_KEY)
        Synced(w) ==
            IF w.threw THEN Throw(w.s, FALSE)
            ELSE Res([w.s EXCEPT !.lastSyncedProfileId = profileId], TRUE)
        Activate(loaded) ==
            LET s2 == IF prev # NoId /\ profileId # NoId /\ prev # profileId
                      THEN setLastProfileId(loaded.s, prev) ELSE loaded.s
                s3 == bucketUpdate(bucketUpdate(s2, bucket, ACTIVE_PROFILE_KEY, profileId),
                                   bucket, OLD_ACTIVE_PROFILE_KEY, NoId)
            IN IF profileId # NoId /\ loaded.threw THEN Throw(loaded.s, FALSE)
               ELSE IF profileId # NoId /\ ~loaded.ret.ok THEN Res(loaded.s, FALSE)
               ELSE IF profileId # NoId
               THEN Synced(syncCodexAuthFile(s3, loaded.ret.data, NoOpts, io))
               ELSE Res(s3, TRUE)
    IN Activate(IF profileId # NoId THEN loadAuthData(s, profileId)
                ELSE Res(s, [ok |-> FALSE, data |-> NoAuthData]))

\* The mutant swaps whether or not the switch was accepted.
toggleLastProfileId_SwapUnlessOk(s, io) ==
    LET Swap(a) ==
            LET Switch(l) ==
                    LET Done(ok) ==
                            IF ok.threw THEN Throw(ok.s, NoId)
                            ELSE IF a.ret # NoId
                            THEN Res(setLastProfileId(ok.s, a.ret),
                                     IF ok.ret THEN l.ret ELSE NoId)
                            ELSE IF ok.ret THEN Res(ok.s, l.ret)
                            ELSE Res(ok.s, NoId)
                    IN IF l.ret = NoId THEN Res(l.s, NoId)
                       ELSE Done(setActiveProfileId(l.s, l.ret, io))
            IN Switch(getLastProfileId(a.s))
    IN Swap(getActiveProfileId(s))

\* The mutant swaps with the wrong variable: it stores the id it has just
\* activated as the last one.
toggleLastProfileId_SwapLast(s, io) ==
    LET Swap(a) ==
            LET Switch(l) ==
                    LET Done(ok) ==
                            IF ok.threw THEN Throw(ok.s, NoId)
                            ELSE IF ok.ret /\ a.ret # NoId
                            THEN Res(setLastProfileId(ok.s, l.ret), l.ret)
                            ELSE IF ok.ret THEN Res(ok.s, l.ret)
                            ELSE Res(ok.s, NoId)
                    IN IF l.ret = NoId THEN Res(l.s, NoId)
                       ELSE Done(setActiveProfileId(l.s, l.ret, io))
            IN Switch(getLastProfileId(a.s))
    IN Swap(getActiveProfileId(s))

toggleLastProfileId(s, io) ==
    LET Swap(a) ==
            LET Switch(l) ==
                    LET Done(ok) ==
                            IF ok.threw THEN Throw(ok.s, NoId)
                            ELSE IF ok.ret /\ a.ret # NoId
                            THEN Res(setLastProfileId(ok.s, a.ret), l.ret)
                            ELSE IF ok.ret THEN Res(ok.s, l.ret)
                            ELSE Res(ok.s, NoId)
                    IN IF l.ret = NoId THEN Res(l.s, NoId)
                       ELSE Done(setActiveProfileId(l.s, l.ret, io))
            IN Switch(getLastProfileId(a.s))
    IN Swap(getActiveProfileId(s))

\* The mutant forgets which profile was synced when it deletes the active one.
deleteProfile_ForgetSynced(s, profileId) ==
    LET profiles == readProfilesFile(s)
        kept == SelectSeq(profiles, LAMBDA p : p.id # profileId)
        s1 == writeProfilesFile(s, kept)
        s2 == secretsDelete(secretsDelete(s1, secretKey(profileId)),
                            legacySecretKey(profileId))
        CleanUp(active) ==
            LET CleanUpLast(last) ==
                    LET ClearLast(s3) ==
                            IF last.ret = profileId THEN setLastProfileId(s3, NoId) ELSE s3
                    IN Res(ClearLast(IF active.ret = profileId
                                     THEN [setActiveProfileId(last.s, NoId, IoOk).s
                                               EXCEPT !.lastSyncedProfileId = NoId]
                                     ELSE last.s), TRUE)
            IN CleanUpLast(getLastProfileId(active.s))
    IN IF FindThrows(profiles, [i \in 1..Len(profiles) |-> FALSE]) THEN Throw(s, FALSE)
       ELSE IF Len(kept) = Len(profiles) THEN Res(s, FALSE)
       ELSE CleanUp(getActiveProfileId(s2))

deleteProfile(s, profileId) ==
    LET profiles == readProfilesFile(s)
        kept == SelectSeq(profiles, LAMBDA p : p.id # profileId)
        s1 == writeProfilesFile(s, kept)
        s2 == secretsDelete(secretsDelete(s1, secretKey(profileId)),
                            legacySecretKey(profileId))
        CleanUp(active) ==
            LET CleanUpLast(last) ==
                    LET ClearLast(s3) ==
                            IF last.ret = profileId THEN setLastProfileId(s3, NoId) ELSE s3
                    IN Res(ClearLast(IF active.ret = profileId
                                     THEN setActiveProfileId(last.s, NoId, IoOk).s
                                     ELSE last.s), TRUE)
            IN CleanUpLast(getLastProfileId(active.s))
    IN IF FindThrows(profiles, [i \in 1..Len(profiles) |-> FALSE]) THEN Throw(s, FALSE)
       ELSE IF Len(kept) = Len(profiles) THEN Res(s, FALSE)
       ELSE CleanUp(getActiveProfileId(s2))

maybeSyncToCodexAuthFile(s, profileId, io) ==
    LET Synced(w) ==
            IF w.threw THEN Throw(w.s, FALSE)
            ELSE Res([w.s EXCEPT !.lastSyncedProfileId = profileId], TRUE)
        Sync(loaded) ==
            IF loaded.threw THEN Throw(loaded.s, FALSE)
            ELSE IF ~loaded.ret.ok THEN Res(loaded.s, TRUE)
            ELSE Synced(syncCodexAuthFile(loaded.s, loaded.ret.data, NoOpts, io))
    IN IF profileId = NoId THEN Res(s, TRUE)
       ELSE IF s.lastSyncedProfileId = profileId THEN Res(s, TRUE)
       ELSE Sync(loadAuthData(s, profileId))

syncActiveProfileToCodexAuthFile(s, io) ==
    LET Sync(active) ==
            IF active.ret = NoId THEN Res(active.s, TRUE)
            ELSE maybeSyncToCodexAuthFile(active.s, active.ret, io)
    IN Sync(getActiveProfileId(s))

\* tooltip-builder.ts: createProfileTooltip passes the name of every listed
\* profile to escapeMarkdown, which calls `replace` on it: a profile without
\* a name raises a TypeError.
TooltipThrows(profiles) == \E i \in 1..Len(profiles) : profiles[i].name = Undefined

\* status-bar.ts: updateProfileStatus(profile, profiles) at the end of a
\* refresh that left `s` and shows `ret`.
updateProfileStatus(s, ret, profiles) ==
    IF TooltipThrows(profiles) THEN Throw(s, ret) ELSE Res(s, ret)

\* extension.ts: the refresh of the status bar, which clears a stale active pointer.
refreshProfileUi(s) ==
    LET Listed(profiles) ==
            LET Refresh(activeId) ==
                    LET Show(profile) ==
                            IF profile.threw THEN Throw(profile.s, NoId)
                            ELSE IF ~profile.ret.found
                            THEN updateProfileStatus(
                                     setActiveProfileId(profile.s, NoId, IoOk).s, NoId,
                                     profiles.ret)
                            ELSE updateProfileStatus(profile.s, activeId.ret, profiles.ret)
                    IN IF activeId.ret = NoId
                       THEN updateProfileStatus(activeId.s, NoId, profiles.ret)
                       ELSE Show(getProfile(activeId.s, activeId.ret))
            IN IF profiles.threw THEN Throw(profiles.s, NoId)
               ELSE Refresh(getActiveProfileId(profiles.s))
    IN Listed(listProfiles(s))

-----------------------------------------------------------------------------
(* The asynchronous methods, one stretch at a time.  A call runs until it  *)
(* awaits something that is not settled yet, and resumes in a later turn;  *)
(* any other call can run in between.  A call that awaits another method   *)
(* runs that method's first stretch at once, and is resumed in a later     *)
(* turn with what the method returned.  readProfilesFile has no await of   *)
(* its own: the registry is read when it is called.  Memento.update takes  *)
(* effect when it is called, SecretStorage.store and delete in a later     *)
(* turn.  A stretch that only returns is run with the stretch before it.   *)

\* What a call returns to the call that awaits it: an id, a boolean, a list
\* of profiles, a profile that was looked for, or the credential loaded.
NoRet ==
    [id |-> NoId, ok |-> FALSE, profiles |-> <<>>,
     find |-> [found |-> FALSE, profile |-> NoProfile],
     load |-> [ok |-> FALSE, data |-> NoAuthData]]

\* A call of the method `fn` that has not run yet: its position, its
\* arguments (id, name, authData), the outcome the file system will have for
\* it (io), its local variables, and what the call it awaited returned.
Frame(fn) ==
    [fn |-> fn, pc |-> "start", id |-> NoId, name |-> Undefined,
     authData |-> NoAuthData, io |-> IoOk, read |-> NoProfilesFile, now |-> 0,
     x |-> NoId, y |-> NoId, data |-> NoAuthData, profile |-> NoProfile,
     bad |-> FALSE, keep |-> FALSE, ret |-> NoRet]

\* How a stretch ends: the call awaits and goes on as frame f; it calls the
\* method `callee` and awaits it; it returns `val`; or it throws.
Await(s, f) == [kind |-> "await", s |-> s, f |-> f, callee |-> f, val |-> NoRet]
Invoke(s, f, callee) ==
    [kind |-> "call", s |-> s, f |-> f, callee |-> callee, val |-> NoRet]
Return(s, val) ==
    [kind |-> "return", s |-> s, f |-> Frame("none"), callee |-> Frame("none"),
     val |-> val]
Raise(s) ==
    [kind |-> "raise", s |-> s, f |-> Frame("none"), callee |-> Frame("none"),
     val |-> NoRet]

\* Lines 123-190.  The flag is read, then the registry; after the await the
\* legacy registry is adopted when the registry that was read was empty, and
\* the flag is set.
tryMigrateLegacyProfilesOnceStep(s, f) ==
    CASE f.pc = "start" ->
             IF s.migratedLegacy THEN Return(s, NoRet)
             ELSE Await(s, [f EXCEPT !.pc = "migrate", !.read = s.profilesFile])
      [] f.pc = "migrate" ->
             LET Migrated(m) ==
                     Return([s EXCEPT !.profilesFile = IF m.profilesFile # f.read
                                                       THEN m.profilesFile ELSE @,
                                      !.migratedLegacy = TRUE], NoRet)
             IN Migrated(tryMigrateLegacyProfilesOnce(
                    [s EXCEPT !.profilesFile = f.read, !.migratedLegacy = FALSE]))

\* Lines 192-196.
listProfilesStep(s, f) ==
    CASE f.pc = "start" ->
             Invoke(s, [f EXCEPT !.pc = "read"], Frame("tryMigrateLegacyProfilesOnce"))
      [] f.pc = "read" ->
             LET Sort(profiles) ==
                     IF SortThrows(profiles) THEN Raise(s)
                     ELSE Return(s, [NoRet EXCEPT !.profiles = SortByName(profiles)])
             IN Sort(readProfilesFile(s))

\* Lines 198-201.
getProfileStep(s, f) ==
    CASE f.pc = "start" ->
             Invoke(s, [f EXCEPT !.pc = "find"], Frame("listProfiles"))
      [] f.pc = "find" ->
             LET Find(profiles) ==
                     LET tests == [i \in 1..Len(profiles) |-> profiles[i].id = f.id]
                         idx == FindIndex(tests)
                     IN IF FindThrows(profiles, tests) THEN Raise(s)
                        ELSE Return(s, [NoRet EXCEPT !.find =
                                 [found |-> idx # 0,
                                  profile |-> IF idx # 0 THEN profiles[idx]
                                              ELSE NoProfile]])
             IN Find(f.ret.profiles)

\* Lines 313-326: the stored text parsed, with the e-mail and the plan of the
\* registry entry.
ParseSecret(s, raw, profile) ==
    IF ~raw.parsable THEN Return(s, NoRet)
    ELSE Return(s, [NoRet EXCEPT !.load =
             [ok |-> TRUE,
              data |-> [idToken |-> raw.value.idToken,
                        accessToken |-> raw.value.accessToken,
                        refreshToken |-> raw.value.refreshToken,
                        accountId |-> raw.value.accountId,
                        email |-> profile.email,
                        planType |-> profile.planType,
                        authJson |-> raw.value.authJson]]])

\* Lines 305-327: the profile, the secret under the current key, and the
\* secret under the legacy key when there is none.
loadAuthDataStep(s, f) ==
    CASE f.pc = "start" ->
             Invoke(s, [f EXCEPT !.pc = "secret"], [Frame("getProfile") EXCEPT !.id = f.id])
      [] f.pc = "secret" ->
             IF ~f.ret.find.found THEN Return(s, NoRet)
             ELSE IF s.secrets[secretKey(f.id)].present
             THEN ParseSecret(s, s.secrets[secretKey(f.id)], f.ret.find.profile)
             ELSE Await(s, [f EXCEPT !.pc = "legacy", !.profile = f.ret.find.profile])
      [] f.pc = "legacy" ->
             IF ~s.secrets[legacySecretKey(f.id)].present THEN Return(s, NoRet)
             ELSE ParseSecret(s, s.secrets[legacySecretKey(f.id)], f.profile)

\* Lines 347-364 and 401-417: the pointer under `key`, or the one under the
\* legacy name `oldKey`, which is stored under `key` and cleared in the
\* configured bucket and in the legacy bucket, one update after the other.
getPointerStep(s, f, key, oldKey) ==
    LET bucket == getStateBucket(s)
        legacyBucket == getLegacyStateBucket(s)
        v == bucketGet(s, bucket, key)
        old == IF bucketGet(s, bucket, oldKey) # NoId
               THEN bucketGet(s, bucket, oldKey)
               ELSE bucketGet(s, legacyBucket, oldKey)
    IN CASE f.pc = "start" ->
                IF v # NoId THEN Return(s, [NoRet EXCEPT !.id = v])
                ELSE IF old # NoId
                THEN Await(bucketUpdate(s, bucket, key, old),
                           [f EXCEPT !.pc = "clearOld", !.x = old])
                ELSE Return(s, NoRet)
         [] f.pc = "clearOld" ->
                Await(bucketUpdate(s, bucket, oldKey, NoId),
                      [f EXCEPT !.pc = "clearLegacy"])
         [] f.pc = "clearLegacy" ->
                Return(bucketUpdate(s, legacyBucket, oldKey, NoId),
                       [NoRet EXCEPT !.id = f.x])

getActiveProfileIdStep(s, f) ==
    getPointerStep(s, f, ACTIVE_PROFILE_KEY, OLD_ACTIVE_PROFILE_KEY)

getLastProfileIdStep(s, f) ==
    getPointerStep(s, f, LAST_PROFILE_KEY, OLD_LAST_PROFILE_KEY)

\* Lines 419-423.
setLastProfileIdStep(s, f) ==
    CASE f.pc = "start" ->
             Await(bucketUpdate(s, getStateBucket(s), LAST_PROFILE_KEY, f.id),
                   [f EXCEPT !.pc = "clearOld"])
      [] f.pc = "clearOld" ->
             Return(bucketUpdate(s, getStateBucket(s), OLD_LAST_PROFILE_KEY, NoId), NoRet)

\* Lines 366-399.  x is `prev`, data is `authData`.
setActiveProfileIdStep(s, f) ==
    LET bucket == getStateBucket(s)
        prev == IF bucketGet(s, bucket, ACTIVE_PROFILE_KEY) # NoId
                THEN bucketGet(s, bucket, ACTIVE_PROFILE_KEY)
                ELSE bucketGet(s, bucket, OLD_ACTIVE_PROFILE_KEY)
        Synced(w) ==
            IF w.threw THEN Raise(w.s)
            ELSE Return([w.s EXCEPT !.lastSyncedProfileId = f.id],
                        [NoRet EXCEPT !.ok = TRUE])
    IN CASE f.pc = "start" ->
                IF f.id # NoId
                THEN Invoke(s, [f EXCEPT !.pc = "loaded", !.x = prev],
                            [Frame("loadAuthData") EXCEPT !.id = f.id])
                ELSE Await(bucketUpdate(s, bucket, ACTIVE_PROFILE_KEY, NoId),
                           [f EXCEPT !.pc = "clearOld", !.x = prev])
         [] f.pc = "loaded" ->
                IF ~f.ret.load.ok
                THEN Invoke(s, [f EXCEPT !.pc = "rejected"],
                            [Frame("getProfile") EXCEPT !.id = f.id])
                ELSE IF f.x # NoId /\ f.x # f.id
                THEN Invoke(s, [f EXCEPT !.pc = "store", !.data = f.ret.load.data],
                            [Frame("setLastProfileId") EXCEPT !.id = f.x])
                ELSE Await(bucketUpdate(s, bucket, ACTIVE_PROFILE_KEY, f.id),
                           [f EXCEPT !.pc = "clearOld", !.data = f.ret.load.data])
         [] f.pc = "rejected" -> Return(s, NoRet)
         [] f.pc = "store" ->
                Await(bucketUpdate(s, bucket, ACTIVE_PROFILE_KEY, f.id),
                      [f EXCEPT !.pc = "clearOld"])
         [] f.pc = "clearOld" ->
                IF f.id = NoId
                THEN Return(bucketUpdate(s, bucket, OLD_ACTIVE_PROFILE_KEY, NoId),
                            [NoRet EXCEPT !.ok = TRUE])
                ELSE Await(bucketUpdate(s, bucket, OLD_ACTIVE_PROFILE_KEY, NoId),
                           [f EXCEPT !.pc = "sync"])
         [] f.pc = "sync" -> Synced(syncCodexAuthFile(s, f.data, NoOpts, f.io))

\* Lines 425-436.  x is `active`, y is `last`.
toggleLastProfileIdStep(s, f) ==
    CASE f.pc = "start" ->
             Invoke(s, [f EXCEPT !.pc = "gotActive"], Frame("getActiveProfileId"))
      [] f.pc = "gotActive" ->
             Invoke(s, [f EXCEPT !.pc = "gotLast", !.x = f.ret.id],
                    Frame("getLastProfileId"))
      [] f.pc = "gotLast" ->
             IF f.ret.id = NoId THEN Return(s, NoRet)
             ELSE Invoke(s, [f EXCEPT !.pc = "switched", !.y = f.ret.id],
                         [Frame("setActiveProfileId") EXCEPT !.id = f.ret.id,
                                                             !.io = f.io])
      [] f.pc = "switched" ->
             IF f.ret.ok /\ f.x # NoId
             THEN Invoke(s, [f EXCEPT !.pc = "swapped"],
                         [Frame("setLastProfileId") EXCEPT !.id = f.x])
             ELSE Return(s, [NoRet EXCEPT !.id = IF f.ret.ok THEN f.y ELSE NoId,
                                          !.ok = f.ret.ok])
      [] f.pc = "swapped" -> Return(s, [NoRet EXCEPT !.id = f.y, !.ok = TRUE])

\* Lines 233-242.
maybeSyncToCodexAuthFileStep(s, f) ==
    LET Synced(w) ==
            IF w.threw THEN Raise(w.s)
            ELSE Return([w.s EXCEPT !.lastSyncedProfileId = f.id],
                        [NoRet EXCEPT !.ok = TRUE])
    IN CASE f.pc = "start" ->
                IF f.id = NoId \/ s.lastSyncedProfileId = f.id
                THEN Return(s, [NoRet EXCEPT !.ok = TRUE])
                ELSE Invoke(s, [f EXCEPT !.pc = "loaded"],
                            [Frame("loadAuthData") EXCEPT !.id = f.id])
         [] f.pc = "loaded" ->
                IF ~f.ret.load.ok THEN Return(s, [NoRet EXCEPT !.ok = TRUE])
                ELSE Synced(syncCodexAuthFile(s, f.ret.load.data, NoOpts, f.io))

\* Lines 438-442.
syncActiveProfileToCodexAuthFileStep(s, f) ==
    CASE f.pc = "start" ->
             Invoke(s, [f EXCEPT !.pc = "gotActive"], Frame("getActiveProfileId"))
      [] f.pc = "gotActive" ->
             IF f.ret.id = NoId THEN Return(s, [NoRet EXCEPT !.ok = TRUE])
             ELSE Invoke(s, [f EXCEPT !.pc = "synced"],
                         [Frame("maybeSyncToCodexAuthFile") EXCEPT !.id = f.ret.id,
                                                                  !.io = f.io])
      [] f.pc = "synced" -> Return(s, [NoRet EXCEPT !.ok = TRUE])

\* Lines 208-231: the registry is read at the call, written after the await
\* from what was read, and the tokens are stored in a later turn.
replaceProfileAuthStep(s, f) ==
    LET Replaced(r) ==
            IF r.threw THEN Raise(s)
            ELSE CASE f.pc = "write" ->
                          IF ~r.ret THEN Return(s, NoRet)
                          ELSE Await([s EXCEPT !.profilesFile = r.s.profilesFile],
                                     [f EXCEPT !.pc = "store"])
                   [] f.pc = "store" ->
                          Return([s EXCEPT !.secrets[secretKey(f.id)] =
                                               r.s.secrets[secretKey(f.id)]],
                                 [NoRet EXCEPT !.ok = TRUE])
    IN IF f.pc = "start"
       THEN Await(s, [f EXCEPT !.pc = "write", !.read = s.profilesFile])
       ELSE Replaced(replaceProfileAuth([s EXCEPT !.profilesFile = f.read],
                                        f.id, f.authData))

\* Lines 274-285.
renameProfileStep(s, f) ==
    LET Renamed(r) ==
            IF r.threw THEN Raise(s)
            ELSE IF ~r.ret THEN Return(s, NoRet)
            ELSE Return([s EXCEPT !.profilesFile = r.s.profilesFile],
                        [NoRet EXCEPT !.ok = TRUE])
    IN IF f.pc = "start"
       THEN Await(s, [f EXCEPT !.pc = "write", !.read = s.profilesFile])
       ELSE Renamed(renameProfile([s EXCEPT !.profilesFile = f.read], f.id, f.name))

\* Lines 244-272: the time, the id and the registry are taken at the call;
\* the registry is written after the await and the tokens are stored in a
\* later turn.
createProfileStep(s, f) ==
    LET Created(r) ==
            CASE f.pc = "write" ->
                     Await([s EXCEPT !.profilesFile = r.s.profilesFile],
                           [f EXCEPT !.pc = "store"])
              [] f.pc = "store" ->
                     Return([s EXCEPT !.secrets[secretKey(f.id)] =
                                          r.s.secrets[secretKey(f.id)]],
                            [NoRet EXCEPT !.id = f.id, !.ok = TRUE])
    IN IF f.pc = "start"
       THEN Await([s EXCEPT !.nextId = @ + 1],
                  [f EXCEPT !.pc = "write", !.id = s.nextId, !.now = s.now,
                            !.read = s.profilesFile])
       ELSE Created(createProfile([s EXCEPT !.profilesFile = f.read, !.nextId = f.id,
                                            !.now = f.now], f.name, f.authData))

\* Lines 287-303.  x is `active`, y is `last`.
deleteProfileStep(s, f) ==
    LET profiles == readProfilesFile([s EXCEPT !.profilesFile = f.read])
        kept == SelectSeq(profiles, LAMBDA p : p.id # f.id)
        Done == Return(s, [NoRet EXCEPT !.ok = TRUE])
        ClearLast(g) ==
            Invoke(s, [g EXCEPT !.pc = "done"], Frame("setLastProfileId"))
    IN CASE f.pc = "start" ->
                Await(s, [f EXCEPT !.pc = "write", !.read = s.profilesFile])
         [] f.pc = "write" ->
                IF FindThrows(profiles, [i \in 1..Len(profiles) |-> FALSE]) THEN Raise(s)
                ELSE IF Len(kept) = Len(profiles) THEN Return(s, NoRet)
                ELSE Await(writeProfilesFile(s, kept), [f EXCEPT !.pc = "secret"])
         [] f.pc = "secret" ->
                Await(secretsDelete(s, secretKey(f.id)),
                      [f EXCEPT !.pc = "legacySecret"])
         [] f.pc = "legacySecret" ->
                Invoke(secretsDelete(s, legacySecretKey(f.id)),
                       [f EXCEPT !.pc = "gotActive"], Frame("getActiveProfileId"))
         [] f.pc = "gotActive" ->
                Invoke(s, [f EXCEPT !.pc = "gotLast", !.x = f.ret.id],
                       Frame("getLastProfileId"))
         [] f.pc = "gotLast" ->
                IF f.x = f.id
                THEN Invoke(s, [f EXCEPT !.pc = "cleared", !.y = f.ret.id],
                            Frame("setActiveProfileId"))
                ELSE IF f.ret.id = f.id THEN ClearLast(f)
                ELSE Done
         [] f.pc = "cleared" -> IF f.y = f.id THEN ClearLast(f) ELSE Done
         [] f.pc = "done" -> Done

\* extension.ts, lines 35-56.  x is `activeId`; bad tells that the tooltip
\* of the profiles listed will throw.
refreshProfileUiStep(s, f) ==
    LET Shown == IF f.bad THEN Raise(s) ELSE Return(s, [NoRet EXCEPT !.ok = TRUE])
    IN CASE f.pc = "start" ->
                Invoke(s, [f EXCEPT !.pc = "listed"], Frame("listProfiles"))
         [] f.pc = "listed" ->
                Invoke(s, [f EXCEPT !.pc = "gotActive",
                                    !.bad = TooltipThrows(f.ret.profiles)],
                       Frame("getActiveProfileId"))
         [] f.pc = "gotActive" ->
                IF f.ret.id = NoId THEN Shown
                ELSE Invoke(s, [f EXCEPT !.pc = "found", !.x = f.ret.id],
                            [Frame("getProfile") EXCEPT !.id = f.ret.id])
         [] f.pc = "found" ->
                IF f.ret.find.found THEN Shown
                ELSE Invoke(s, [f EXCEPT !.pc = "cleared"], Frame("setActiveProfileId"))
         [] f.pc = "cleared" -> Shown

\* The stretch of the call at the top of a stack.
StepOf(s, f) ==
    CASE f.fn = "tryMigrateLegacyProfilesOnce" -> tryMigrateLegacyProfilesOnceStep(s, f)
      [] f.fn = "listProfiles" -> listProfilesStep(s, f)
      [] f.fn = "getProfile" -> getProfileStep(s, f)
      [] f.fn = "loadAuthData" -> loadAuthDataStep(s, f)
      [] f.fn = "getActiveProfileId" -> getActiveProfileIdStep(s, f)
      [] f.fn = "getLastProfileId" -> getLastProfileIdStep(s, f)
      [] f.fn = "setLastProfileId" -> setLastProfileIdStep(s, f)
      [] f.fn = "setActiveProfileId" -> setActiveProfileIdStep(s, f)
      [] f.fn = "toggleLastProfileId" -> toggleLastProfileIdStep(s, f)
      [] f.fn = "maybeSyncToCodexAuthFile" -> maybeSyncToCodexAuthFileStep(s, f)
      [] f.fn = "syncActiveProfileToCodexAuthFile" ->
             syncActiveProfileToCodexAuthFileStep(s, f)
      [] f.fn = "replaceProfileAuth" -> replaceProfileAuthStep(s, f)
      [] f.fn = "renameProfile" -> renameProfileStep(s, f)
      [] f.fn = "createProfile" -> createProfileStep(s, f)
      [] f.fn = "deleteProfile" -> deleteProfileStep(s, f)
      [] f.fn = "refreshProfileUi" -> refreshProfileUiStep(s, f)

\* A call, the stack of the methods that await one another with the
\* innermost first, runs from state s until it awaits or ends.  A method
\* that is called runs at once; a method that returns hands its value to
\* the one below, which resumes in a later turn; an exception ends the call,
\* as no method catches one.
RECURSIVE Run(_, _)
Run(s, stack) ==
    LET Go(o) ==
            CASE o.kind = "await" ->
                     [s |-> o.s, stack |-> <<[o.f EXCEPT !.ret = NoRet]>> \o Tail(stack),
                      threw |-> FALSE, val |-> NoRet]
              [] o.kind = "call" ->
                     Run(o.s, <<o.callee, [o.f EXCEPT !.ret = NoRet]>> \o Tail(stack))
              [] o.kind = "return" ->
                     [s |-> o.s,
                      stack |-> IF Len(stack) = 1 THEN <<>>
                                ELSE <<[stack[2] EXCEPT !.ret = o.val]>>
                                         \o Tail(Tail(stack)),
                      threw |-> FALSE, val |-> o.val]
              [] o.kind = "raise" ->
                     [s |-> o.s, stack |-> <<>>, threw |-> TRUE, val |-> NoRet]
    IN Go(StepOf(s, Head(stack)))

-----------------------------------------------------------------------------
(* The inputs of the model.                                                *)

ProfileIds == 1..MaxProfiles
Names == {"home", "work"}

Str_a_x == <<"a", "@", "x">>
Str_Unknown == <<"U", "n", "k", "n", "o", "w", "n">>

\* The auth.json `codex login` writes for account A1, and the record
\* loadAuthDataFromFile makes of it.
JsonA1 ==
    [isObject |-> TRUE, OPENAI_API_KEY |-> "sk-A",
     tokens |-> [isObject |-> TRUE, id_token |-> "idA.1", access_token |-> "acA.1",
                 refresh_token |-> "rfA.1", account_id |-> "A1",
                 last_refresh |-> "t1"]]
AuthA1 ==
    [idToken |-> "idA.1", accessToken |-> "acA.1", refreshToken |-> "rfA.1",
     accountId |-> "A1", email |-> Str_a_x, planType |-> "pro", authJson |-> JsonA1]
\* The same account after its tokens were refreshed.
JsonA2 ==
    [JsonA1 EXCEPT !.tokens = [JsonA1.tokens EXCEPT !.id_token = "idA.2",
                                                    !.access_token = "acA.2",
                                                    !.refresh_token = "rfA.2"]]
AuthA2 ==
    [AuthA1 EXCEPT !.idToken = "idA.2", !.accessToken = "acA.2",
                   !.refreshToken = "rfA.2", !.planType = "plus", !.authJson = JsonA2]
\* A credential without account id, identity claims or preserved payload.
AuthB ==
    [idToken |-> "idB.1", accessToken |-> "acB.1", refreshToken |-> "rfB.1",
     accountId |-> Undefined, email |-> Str_Unknown, planType |-> "Unknown",
     authJson |-> NoJson]

AuthInputs == {AuthA1, AuthA2, AuthB}

EmptyBucket == [k \in StateKeys |-> NoId]
EmptyMemento == [b \in Scopes |-> EmptyBucket]
SecretKeys == {NEW_SECRET_PREFIX, OLD_SECRET_PREFIX} \X ProfileIds
NoSecrets == [k \in SecretKeys |-> NoSecret]

\* The profile a previous installation left behind, with id 1.
OldProfile == ProfileSummary(1, "work", Str_a_x, "pro", "A1", 0, 0)

-----------------------------------------------------------------------------
(* The specification of the profile manager: every public method of        *)
(* ProfileManager and the status-bar refresh, called in any order, each    *)
(* call running from one await to the next.  The number of calls that run  *)
(* beside one another is a bound of each specification: this one, the one *)
(* of the profile store and the one of the registry file run one call at   *)
(* a time, the specification of the races runs MaxCalls calls that         *)
(* overlap.                                                                *)

\* The scope settings: nothing set (both buckets are the global one), and the
\* new setting set to workspace (the legacy bucket stays the global one).
ScopeSettings ==
    {<<Undefined, "global">>, <<"workspace", "global">>}

\* No syncCodexAuthFile is in progress.
IdleWriter ==
    [pc |-> "idle", opts |-> NoOpts, content |-> NoJson, maxBackups |-> 0,
     suffix |-> 0, old |-> NoFile, tmp |-> NoFile, renameFailed |-> FALSE,
     backupFailed |-> FALSE, stuck |-> {}, pruneFailed |-> FALSE, made |-> {},
     writes |-> 0]
\* No asynchronous call is in progress and none has been recorded; `stops`
\* counts the times the extension host stopped with calls in progress.
NoTasks == [calls |-> [i \in 1..MaxCalls |-> <<>>], done |-> {}, stops |-> 0]

\* How many calls a specification lets run beside one another, and whether
\* it records the calls that completed: one call at a time, any number of
\* them one after the other; or MaxCalls calls that overlap.
OneAtATime == [calls |-> 1, keep |-> FALSE]
Overlapping == [calls |-> MaxCalls, keep |-> TRUE]

\* loadAuthDataFromFile has not been called, or returned null.
NoLoad == [found |-> FALSE, authData |-> NoAuthData]

\* No pure function was called.
NoCall == [fn |-> "none", authData |-> NoAuthData, found |-> FALSE, profile |-> NoProfile]

\* A fresh installation, possibly beside the storage directory of an older one.
InitFresh ==
    /\ profilesFile = NoProfilesFile
    /\ secrets = NoSecrets
    /\ memento = EmptyMemento
    /\ \/ legacyDir = <<>> /\ nextId = 1
       \/ /\ legacyDir = <<[name |-> "codex-stats", file |-> VersionedFile(<<OldProfile>>)]>>
          /\ nextId = 2

\* The codexUsage.* pointers an older version left in the two buckets: an
\* active pointer or a last pointer, in either bucket or in both.
OldPointers ==
    {[global |-> [EmptyBucket EXCEPT ![k] = g], workspace |-> [EmptyBucket EXCEPT ![k] = w]] :
        k \in {OLD_ACTIVE_PROFILE_KEY, OLD_LAST_PROFILE_KEY}, g \in {NoId, 1}, w \in {NoId, 1}}

\* An installation upgraded from the version that used the codexUsage.* keys:
\* its profile, its secret and its pointers are still there.
InitUpgraded ==
    /\ profilesFile = VersionedFile(<<OldProfile>>)
    /\ \E old \in {JsonStringifyTokens(ProfileTokens(AuthA1)), GarbageSecret} :
           secrets = [NoSecrets EXCEPT ![legacySecretKey(1)] = old]
    /\ memento \in OldPointers
    /\ legacyDir = <<>>
    /\ nextId = 2

Init ==
    /\ InitFresh \/ InitUpgraded
    /\ migratedLegacy = FALSE
    /\ \E setting \in ScopeSettings : scopeNew = setting[1] /\ scopeOld = setting[2]
    /\ lastSyncedProfileId = NoId
    /\ authFile = WholeFile(JsonA1)
    /\ backups = {}
    /\ now = 0
    /\ writer = IdleWriter
    /\ lastCall = NoCall
    /\ lastLoad = NoLoad
    /\ tasks = NoTasks

\* The variables after a stretch of a call that left the state record `s`
\* and the calls in progress as `t`.
Steps(s, t) ==
    /\ profilesFile' = s.profilesFile
    /\ secrets' = s.secrets
    /\ memento' = s.memento
    /\ migratedLegacy' = s.migratedLegacy
    /\ scopeNew' = s.scopeNew
    /\ scopeOld' = s.scopeOld
    /\ legacyDir' = s.legacyDir
    /\ lastSyncedProfileId' = s.lastSyncedProfileId
    /\ authFile' = s.authFile
    /\ backups' = s.backups
    /\ now' = s.now
    /\ nextId' = s.nextId
    /\ tasks' = t
    /\ UNCHANGED <<writer, lastCall, lastLoad>>

\* The calls that have started and not ended.
InProgress == {i \in 1..MaxCalls : Len(tasks.calls[i]) > 0}

\* No call is in progress.
Settled == InProgress = {}

\* One turn of the event loop: the call `stack`, which is call i, runs until
\* it awaits or ends.  A call that ends is recorded when it asks for that.
Turn(i, stack) ==
    LET call == stack[Len(stack)]
        Ran(r) ==
            Steps(r.s,
                  [calls |-> [tasks.calls EXCEPT ![i] = r.stack],
                   done |-> IF Len(r.stack) = 0 /\ call.keep
                            THEN tasks.done \cup
                                     {[call |-> i, fn |-> call.fn, id |-> call.id,
                                       ok |-> r.val.ok, threw |-> r.threw]}
                            ELSE tasks.done,
                   stops |-> tasks.stops])
    IN Ran(Run(Cur, stack))

\* A method is called, as the frame f, while fewer calls than the
\* specification allows are in progress or recorded: it runs to its first
\* await.
Begin(f, mode) ==
    LET Free(i) == Len(tasks.calls[i]) = 0 /\ \A d \in tasks.done : d.call # i
    IN /\ Cardinality(InProgress) + Cardinality(tasks.done) < mode.calls
       /\ \E i \in 1..MaxCalls :
              /\ Free(i)
              /\ \A j \in 1..(i - 1) : ~Free(j)
              /\ Turn(i, <<[f EXCEPT !.keep = mode.keep]>>)

\* A call that awaited resumes and runs to its next await.
Resume == \E i \in InProgress : Turn(i, tasks.calls[i])

ListProfiles(mode) == Begin(Frame("listProfiles"), mode)

\* randomUUID is a counter in the model, and the counter is bounded.
CreateProfile(names, auths, mode) ==
    /\ nextId <= MaxProfiles
    /\ \E name \in names, authData \in auths :
           Begin([Frame("createProfile") EXCEPT !.name = name, !.authData = authData],
                 mode)

ReplaceProfileAuth(auths, mode) ==
    \E id \in ProfileIds, authData \in auths :
        Begin([Frame("replaceProfileAuth") EXCEPT !.id = id, !.authData = authData],
              mode)

RenameProfile(mode) ==
    \E id \in ProfileIds, name \in Names :
        Begin([Frame("renameProfile") EXCEPT !.id = id, !.name = name], mode)

DeleteProfile(mode) ==
    \E id \in ProfileIds : Begin([Frame("deleteProfile") EXCEPT !.id = id], mode)

GetActiveProfileId(mode) == Begin(Frame("getActiveProfileId"), mode)

GetLastProfileId(mode) == Begin(Frame("getLastProfileId"), mode)

SetActiveProfileId(ios, mode) ==
    \E id \in {NoId} \cup ProfileIds, io \in ios :
        Begin([Frame("setActiveProfileId") EXCEPT !.id = id, !.io = io], mode)

ToggleLastProfileId(ios, mode) ==
    \E io \in ios : Begin([Frame("toggleLastProfileId") EXCEPT !.io = io], mode)

SyncActiveProfileToCodexAuthFile(ios, mode) ==
    \E io \in ios :
        Begin([Frame("syncActiveProfileToCodexAuthFile") EXCEPT !.io = io], mode)

RefreshProfileUi(mode) == Begin(Frame("refreshProfileUi"), mode)

\* extension.ts, activate (lines 13-33), when the extension host starts
\* again, between two calls or, at most MaxStops times, in the middle of
\* one: the calls of the host that stopped are gone with it, the
\* ProfileManager is constructed again (line 19), refreshUi is called and runs
\* to its first await (line 31), then syncActiveProfileToCodexAuthFile is
\* called and runs to its first await (line 32).  The two calls go on beside
\* one another.  As in the other actions of Spec the file-system calls of the
\* write succeed: the failing outcomes are those of IoOutcomes, under which
\* the properties apply the operations to every state reached.
Restart ==
    LET Activated(ui) ==
            LET Both(sync) ==
                    Steps(sync.s,
                          [calls |-> [i \in 1..MaxCalls |->
                                         IF i = 1 THEN ui.stack
                                         ELSE IF i = 2 THEN sync.stack ELSE <<>>],
                           done |-> {},
                           stops |-> IF Settled THEN tasks.stops ELSE tasks.stops + 1])
            IN Both(Run(ui.s, <<[Frame("syncActiveProfileToCodexAuthFile")
                                    EXCEPT !.io = IoOk]>>))
    IN /\ Settled \/ tasks.stops < MaxStops
       /\ Activated(Run([Cur EXCEPT !.lastSyncedProfileId = NoId],
                        <<Frame("refreshProfileUi")>>))

\* Time passes.
Tick ==
    /\ now < MaxTime
    /\ now' = now + 1
    /\ UNCHANGED <<profilesFile, secrets, memento, migratedLegacy, scopeNew,
                   scopeOld, legacyDir, lastSyncedProfileId, authFile, backups, nextId,
                   writer, lastCall, lastLoad, tasks>>

Next ==
    \/ ListProfiles(OneAtATime)
    \/ CreateProfile({"work"}, {AuthA2, AuthB}, OneAtATime)
    \/ ReplaceProfileAuth({AuthB}, OneAtATime)
    \/ DeleteProfile(OneAtATime)
    \/ GetActiveProfileId(OneAtATime)
    \/ GetLastProfileId(OneAtATime)
    \/ SetActiveProfileId({IoOk}, OneAtATime)
    \/ ToggleLastProfileId({IoOk}, OneAtATime)
    \/ SyncActiveProfileToCodexAuthFile({IoOk}, OneAtATime)
    \/ RefreshProfileUi(OneAtATime)
    \/ Resume
    \/ Restart

Spec == Init /\ [][Next]_vars

-----------------------------------------------------------------------------
(* The specification of the profile store: the registry and the secret     *)
(* store under every operation that writes them, with the clock running.   *)

InitStore ==
    /\ InitFresh
    /\ migratedLegacy = FALSE
    /\ scopeNew = Undefined /\ scopeOld = "global"
    /\ lastSyncedProfileId = NoId
    /\ authFile = WholeFile(JsonA1)
    /\ backups = {}
    /\ now = 0
    /\ writer = IdleWriter
    /\ lastCall = NoCall
    /\ lastLoad = NoLoad
    /\ tasks = NoTasks

NextStore ==
    \/ ListProfiles(OneAtATime)
    \/ CreateProfile(Names, AuthInputs, OneAtATime)
    \/ ReplaceProfileAuth(AuthInputs, OneAtATime)
    \/ RenameProfile(OneAtATime)
    \/ DeleteProfile(OneAtATime)
    \/ Resume
    \/ Tick

SpecStore == InitStore /\ [][NextStore]_vars

-----------------------------------------------------------------------------
(* The specification of duplicate detection: findDuplicateProfile applied  *)
(* to every registry of at most MaxProfiles profiles and every credential  *)
(* identity.                                                               *)

Str_A_X == <<" ", "A", "@", "X", " ">>
Str_b_x == <<"b", "@", "x">>
Str_unknown == <<"u", "n", "k", "n", "o", "w", "n">>

\* The account ids and e-mails a profile or a credential carries: none, the
\* empty string, two accounts; none, an address, the same address in another
\* case and with blanks around it, another address, the parser's "Unknown".
DupAccountIds == {Undefined, "", "A1", "A2"}
DupEmails == {UndefinedStr, Str_a_x, Str_A_X, Str_b_x, Str_Unknown}

DupCredentials ==
    {[AuthB EXCEPT !.accountId = a, !.email = e] : a \in DupAccountIds \ {"A2"}, e \in DupEmails}

\* The registries: a profile's id is its position.
DupRegistries ==
    UNION {[1..n -> DupAccountIds \X DupEmails] : n \in 0..MaxProfiles}
DupProfiles(ident) ==
    [i \in 1..Len(ident) |->
        ProfileSummary(i, "work", ident[i][2], "Unknown", ident[i][1], 0, 0)]

InitDup ==
    /\ \E ident \in DupRegistries : profilesFile = VersionedFile(DupProfiles(ident))
    /\ secrets = NoSecrets
    /\ memento = EmptyMemento
    /\ legacyDir = <<>>
    /\ nextId = 1
    /\ migratedLegacy = TRUE
    /\ scopeNew = Undefined /\ scopeOld = "global"
    /\ lastSyncedProfileId = NoId
    /\ authFile = NoFile
    /\ backups = {}
    /\ now = 0
    /\ writer = IdleWriter
    /\ lastCall = NoCall
    /\ lastLoad = NoLoad
    /\ tasks = NoTasks

FindDuplicateProfile ==
    /\ \E authData \in DupCredentials :
           LET r == findDuplicateProfile(Cur, authData)
           IN lastCall' = [fn |-> IF r.threw THEN "findDuplicateProfile raised"
                                  ELSE "findDuplicateProfile",
                           authData |-> authData,
                           found |-> r.found, profile |-> r.profile]
    /\ UNCHANGED <<profilesFile, secrets, memento, migratedLegacy, scopeNew, scopeOld,
                   legacyDir, lastSyncedProfileId, authFile, backups, now, nextId,
                   writer, lastLoad, tasks>>

NextDup == FindDuplicateProfile

SpecDup == InitDup /\ [][NextDup]_vars

-----------------------------------------------------------------------------
(* The specification of the credential-file writer: syncCodexAuthFile      *)
(* taken one file-system call at a time, so that the process can stop      *)
(* between any two of them.  Every call passes the same options.           *)

\* The two paths of one call (lines 72 and 80).  The mutant writes the new
\* content to the target path itself.
authPath == "auth"
tmpPath_IsAuthPath == "auth"
tmpPath == "tmp"

\* The files at the two paths.
Files == [auth |-> authFile, tmp |-> writer.tmp]
\* fs.writeFileSync and fs.copyFileSync truncate the file, then fill it.
truncate(files, path) == [files EXCEPT ![path] = PartialFile]
writeFileSync(files, path, content) == [files EXCEPT ![path] = WholeFile(content)]
copyFileSync(files, from, to) == [files EXCEPT ![to] = files[from]]
\* fs.renameSync replaces the file at `to` in one step.
renameSync(files, from, to) ==
    [path \in DOMAIN files |->
        IF path = to THEN files[from] ELSE IF path = from THEN NoFile ELSE files[path]]
unlinkSync(files, path) == [files EXCEPT ![path] = NoFile]

SyncOpts == {NoOpts} \cup {Opts(n) : n \in 0..MaxRetention}

InitSync ==
    /\ profilesFile = NoProfilesFile
    /\ secrets = NoSecrets
    /\ memento = EmptyMemento
    /\ legacyDir = <<>>
    /\ nextId = 1
    /\ migratedLegacy = FALSE
    /\ scopeNew = Undefined /\ scopeOld = "global"
    /\ lastSyncedProfileId = NoId
    /\ authFile \in {NoFile, WholeFile(JsonA1)}
    /\ backups = {}
    /\ now = 0
    /\ \E opts \in SyncOpts : writer = [IdleWriter EXCEPT !.opts = opts]
    /\ lastCall = NoCall
    /\ lastLoad = NoLoad
    /\ tasks = NoTasks

\* A step of the writer that leaves the files `files`, the backups `bk` and
\* the writer record `w`.
SyncStep(files, bk, w) ==
    /\ authFile' = files[authPath]
    /\ backups' = bk
    /\ writer' = [w EXCEPT !.tmp = IF tmpPath = authPath THEN NoFile ELSE files[tmpPath]]
    /\ UNCHANGED <<profilesFile, secrets, memento, migratedLegacy, scopeNew, scopeOld,
                   legacyDir, lastSyncedProfileId, now, nextId, lastCall, lastLoad, tasks>>

\* Lines 76-82: the directory, the time, the temporary name, the content and
\* the retention.  The temporary name is made of the process id and the
\* instant: writer.tmp is the file under the name a call of this process
\* has at this instant, which is there already when an earlier call of the
\* same instant left it.
SyncBegin ==
    /\ writer.pc = "idle"
    /\ writer.writes < MaxWrites
    /\ \E authData \in {AuthA2, AuthB} :
           SyncStep(Files, backups,
                    [writer EXCEPT !.pc = "backup",
                                   !.content = buildCodexAuthJson(authData),
                                   !.maxBackups = coerceMaxBackups(writer.opts, DefaultMaxBackups),
                                   !.suffix = backupSuffix(now),
                                   !.old = authFile,
                                   !.stuck = {},
                                   !.renameFailed = FALSE])

\* The backups pruneAuthBackups has still to walk: those beyond the
\* retention, less the ones it could not remove.
Excess(bk, maxBackups, stuck) ==
    bk \ pruneAuthBackups(bk, maxBackups, [IoOk EXCEPT !.stuck = stuck])
\* The position after the backup or after one unlink: the next unlink, or
\* line 96 when nothing is left to prune.
AfterBackup(bk, maxBackups, stuck) ==
    IF Excess(bk, maxBackups, stuck) = {} THEN "writeTmp" ELSE "prune"

\* Lines 84-88: the backup copy when one is wanted.  copyFileSync opens and
\* truncates the backup path, then fills it.
SyncBackupBegin ==
    /\ writer.pc = "backup"
    /\ IF writer.maxBackups > 0 /\ authFile.exists
       THEN SyncStep(Files, CopyToBackup(backups, PartialFile, writer.suffix),
                     [writer EXCEPT !.pc = "backupEnd"])
       ELSE SyncStep(Files, backups,
                     [writer EXCEPT !.pc = AfterBackup(backups, writer.maxBackups, {})])

SyncBackupEnd ==
    /\ writer.pc = "backupEnd"
    /\ LET bk == CopyToBackup(backups, authFile, writer.suffix)
       IN SyncStep(Files, bk,
                   [writer EXCEPT !.pc = AfterBackup(bk, writer.maxBackups, {}),
                                  !.made = @ \cup {writer.suffix}])

\* What a copyFileSync that fails leaves at its destination.
CopyLeaves == {"unlinked", "truncated", "cut"}

\* Lines 89-91: the copy throws, before it opened the backup path, which
\* keeps what it had, or after, and then the path is unlinked or, when the
\* unlink fails too, stays truncated or has all of the file but its last
\* byte (which is the file, when that byte is the final newline of a file
\* that parses; a file that does not parse is no better without it); the
\* error is swallowed.
SyncBackupThrows ==
    /\ \/ writer.pc = "backup" /\ writer.maxBackups > 0 /\ authFile.exists
       \/ writer.pc = "backupEnd"
    /\ \E left \in CopyLeaves :
           LET bk == IF writer.pc = "backupEnd" /\ left = "unlinked"
                     THEN {b \in backups : b.suffix # writer.suffix}
                     ELSE IF writer.pc = "backupEnd" /\ left = "cut"
                     THEN CopyToBackup(backups, authFile, writer.suffix)
                     ELSE backups
           IN SyncStep(Files, bk,
                       [writer EXCEPT !.pc = AfterBackup(bk, writer.maxBackups, {}),
                                      !.backupFailed = TRUE])

\* Line 94, pruneAuthBackups: one turn of its loop, on the newest backup
\* beyond the retention that it has not walked yet (the names are walked in
\* descending order): the backup is unlinked, or it stays when statSync or
\* unlinkSync throws.
SyncPrune ==
    /\ writer.pc = "prune"
    /\ \E b \in Excess(backups, writer.maxBackups, writer.stuck), unlinked \in BOOLEAN :
           /\ \A c \in Excess(backups, writer.maxBackups, writer.stuck) :
                  c.suffix <= b.suffix
           /\ LET bk == IF unlinked THEN backups \ {b} ELSE backups
                  stuck == IF unlinked THEN writer.stuck
                           ELSE writer.stuck \cup {b.suffix}
              IN SyncStep(Files, bk,
                          [writer EXCEPT !.pc = AfterBackup(bk, writer.maxBackups, stuck),
                                         !.stuck = stuck,
                                         !.pruneFailed = @ \/ ~unlinked])

\* Line 96: the temporary file is opened and truncated, then written, unless
\* the write fails: at the open, which leaves what was at the path, or after
\* it, which leaves the truncated file or the content less its final
\* newline.  Line 96 is outside the try of lines 101-115, so nothing removes
\* the file.
SyncWriteTmpBegin ==
    /\ writer.pc = "writeTmp"
    /\ SyncStep(truncate(Files, tmpPath), backups, [writer EXCEPT !.pc = "writeTmpEnd"])

SyncWriteTmpEnd ==
    /\ writer.pc = "writeTmpEnd"
    /\ SyncStep(writeFileSync(Files, tmpPath, writer.content), backups,
                [writer EXCEPT !.pc = "rename"])

SyncWriteTmpThrows ==
    /\ writer.pc \in {"writeTmp", "writeTmpEnd"}
    /\ \E cut \in BOOLEAN :
           SyncStep(IF writer.pc = "writeTmpEnd" /\ cut
                    THEN writeFileSync(Files, tmpPath, writer.content) ELSE Files,
                    backups, [writer EXCEPT !.pc = "idle"])

\* Line 103: the rename.
SyncRename ==
    /\ writer.pc = "rename"
    /\ SyncStep(renameSync(Files, tmpPath, authPath), backups,
                [writer EXCEPT !.pc = "cleanup"])

SyncRenameThrows ==
    /\ writer.pc = "rename"
    /\ SyncStep(Files, backups, [writer EXCEPT !.pc = "copy", !.renameFailed = TRUE])

\* Line 107: the copy over the target, which is not atomic and can fail.
SyncCopyBegin ==
    /\ writer.pc = "copy"
    /\ SyncStep(truncate(Files, authPath), backups, [writer EXCEPT !.pc = "copyEnd"])

SyncCopyEnd ==
    /\ writer.pc = "copyEnd"
    /\ SyncStep(copyFileSync(Files, tmpPath, authPath), backups,
                [writer EXCEPT !.pc = "cleanup"])

\* The copy throws: before it opened the target, which keeps its content, or
\* after, and then the target is unlinked or, when the unlink fails too,
\* stays truncated or has the content less its final newline.
SyncCopyThrows ==
    /\ writer.pc \in {"copy", "copyEnd"}
    /\ \E left \in CopyLeaves :
           SyncStep(IF writer.pc = "copyEnd" /\ left = "unlinked"
                    THEN unlinkSync(Files, authPath)
                    ELSE IF writer.pc = "copyEnd" /\ left = "cut"
                    THEN copyFileSync(Files, tmpPath, authPath)
                    ELSE Files,
                    backups, [writer EXCEPT !.pc = "cleanupThrown"])

\* Lines 109-115: the temporary file is removed, unless the unlink fails,
\* which is ignored; the call returns or throws.
SyncCleanup ==
    /\ writer.pc \in {"cleanup", "cleanupThrown"}
    /\ \E unlinked \in BOOLEAN :
           SyncStep(IF unlinked THEN unlinkSync(Files, tmpPath) ELSE Files, backups,
                    [writer EXCEPT !.pc = "idle",
                                   !.writes = IF writer.pc = "cleanup" THEN @ + 1 ELSE @])

\* The writer when the temporary name changes, with the process or with the
\* instant: nothing is at the new name.  A temporary file that was left
\* behind stays in the directory under the old name, which no later call
\* opens or unlinks; it is one of the files the model does not follow.
AtNewTmpPath(w) == [w EXCEPT !.tmp = NoFile]

\* The process stops in the middle of a call: the files stay as the last
\* file-system call left them, and the count of consecutive completed writes
\* and the record of their backups start again in the next process.
Crash ==
    /\ writer.pc # "idle"
    /\ authFile' = authFile
    /\ backups' = backups
    /\ writer' = AtNewTmpPath([writer EXCEPT !.pc = "idle", !.writes = 0, !.made = {}])
    /\ UNCHANGED <<profilesFile, secrets, memento, migratedLegacy, scopeNew, scopeOld,
                   legacyDir, lastSyncedProfileId, now, nextId, lastCall, lastLoad, tasks>>

\* Time passes between two calls.
TickSync ==
    /\ writer.pc = "idle"
    /\ now < MaxSyncTime
    /\ now' = now + 1
    /\ writer' = AtNewTmpPath(writer)
    /\ UNCHANGED <<profilesFile, secrets, memento, migratedLegacy, scopeNew,
                   scopeOld, legacyDir, lastSyncedProfileId, authFile, backups, nextId,
                   lastCall, lastLoad, tasks>>

NextSync ==
    \/ SyncBegin
    \/ SyncBackupBegin
    \/ SyncBackupEnd
    \/ SyncBackupThrows
    \/ SyncPrune
    \/ SyncWriteTmpBegin
    \/ SyncWriteTmpEnd
    \/ SyncWriteTmpThrows
    \/ SyncRename
    \/ SyncRenameThrows
    \/ SyncCopyBegin
    \/ SyncCopyEnd
    \/ SyncCopyThrows
    \/ SyncCleanup
    \/ Crash
    \/ TickSync

SpecSync == InitSync /\ [][NextSync]_vars

-----------------------------------------------------------------------------
(* What the claims speak of.                                               *)

\* The active and the last pointer, as the program reads them.
ActivePointer(s) == getActiveProfileId(s).ret
LastPointer(s) == getLastProfileId(s).ret
\* The ids of the registry, as the program lists them.
RegistryIds(s) == {listProfiles(s).ret[i].id : i \in DOMAIN listProfiles(s).ret}
\* Whether the tokens of a profile load, and the tokens.
HasTokens(s, id) == loadAuthData(s, id).ret.ok
StoredTokens(s, id) == loadAuthData(s, id).ret.data
\* The credential file holds the three tokens of `data`, and its account id
\* when it has one.
FileHoldsTokens(file, data) ==
    /\ file.exists /\ file.complete
    /\ file.json.tokens.id_token = data.idToken
    /\ file.json.tokens.access_token = data.accessToken
    /\ file.json.tokens.refresh_token = data.refreshToken
    /\ Truthy(data.accountId) => file.json.tokens.account_id = data.accountId

-----------------------------------------------------------------------------
(* C1: whenever setActiveProfileId(id) with a defined id returns true, the *)
(* active pointer equals id and the credential file holds the id token,    *)
(* access token and refresh token stored for that profile, and its account *)
(* id when it has one.                                                     *)
(* The call is made while no other call is in progress.                    *)
C1_SetActiveSyncsFile ==
    Settled =>
        \A id \in ProfileIds, io \in IoUnpruned :
            LET Holds(r) ==
                    (~r.threw /\ r.ret) =>
                        /\ ActivePointer(r.s) = id
                        /\ HasTokens(r.s, id)
                        /\ FileHoldsTokens(r.s.authFile, StoredTokens(r.s, id))
            IN Holds(setActiveProfileId(Cur, id, io))

\* A profile with an account id was activated after another one: it is the
\* active and the last synced one, the credential file was rewritten with its
\* tokens, and the previous file is among the backups.
C1_Witness ==
    /\ Settled
    /\ \E id \in ProfileIds :
           /\ lastSyncedProfileId = id
           /\ bucketGet(Cur, getStateBucket(Cur), ACTIVE_PROFILE_KEY) = id
           /\ LastPointer(Cur) \notin {NoId, id}
           /\ Truthy(StoredTokens(Cur, id).accountId)
           /\ authFile # WholeFile(JsonA1) /\ backups # {}
           /\ FileHoldsTokens(authFile, StoredTokens(Cur, id))
           /\ setActiveProfileId(Cur, id, IoOk).ret

(* C2: setActiveProfileId(id) for a defined id whose tokens cannot be      *)
(* loaded returns false and leaves both pointers, the credential file, its *)
(* backups and the last-synced id as they were.                            *)
(* The call is made while no other call is in progress.                    *)
C2_RejectedSetActiveChangesNothing ==
    Settled =>
        \A id \in ProfileIds :
            ~HasTokens(Cur, id) =>
                \A io \in IoUnpruned :
                    LET Holds(r) ==
                            /\ ~r.threw /\ r.ret = FALSE
                            /\ r.s.memento = memento
                            /\ ActivePointer(r.s) = ActivePointer(Cur)
                            /\ LastPointer(r.s) = LastPointer(Cur)
                            /\ r.s.authFile = authFile
                            /\ r.s.backups = backups
                            /\ r.s.lastSyncedProfileId = lastSyncedProfileId
                    IN Holds(setActiveProfileId(Cur, id, io))

\* Another profile is active and synced, and the profile asked for is in the
\* registry with a secret that does not parse.
C2_Witness ==
    /\ Settled
    /\ \E id \in ProfileIds :
           /\ id \in RegistryIds(Cur)
           /\ secrets[legacySecretKey(id)] = GarbageSecret
           /\ ActivePointer(Cur) \notin {NoId, id}
           /\ lastSyncedProfileId = ActivePointer(Cur)
           /\ setActiveProfileId(Cur, id, IoOk).ret = FALSE

(* C3: with two distinct profiles P1 and P2 that both have stored tokens,  *)
(* active = P1 and last = P2, toggleLastProfileId gives active = P2 and    *)
(* last = P1, and a second toggleLastProfileId gives active = P1 and       *)
(* last = P2 again.                                                        *)
(* The call is made while no other call is in progress.                    *)
C3_DoubleToggleIsIdentity ==
    Settled =>
        LET Holds(p1, p2) ==
                (/\ p1 # NoId /\ p2 # NoId /\ p1 # p2
                 /\ HasTokens(Cur, p1) /\ HasTokens(Cur, p2)) =>
                    \A io1 \in IoUnpruned :
                        LET Once(r1) ==
                                /\ ActivePointer(r1.s) = p2 /\ LastPointer(r1.s) = p1
                                /\ ~r1.threw => r1.ret = p2
                                /\ \A io2 \in IoUnpruned :
                                       LET Twice(r2) ==
                                               /\ ActivePointer(r2.s) = p1
                                               /\ LastPointer(r2.s) = p2
                                               /\ ~r2.threw => r2.ret = p1
                                       IN Twice(toggleLastProfileId(r1.s, io2))
                        IN Once(toggleLastProfileId(Cur, io1))
        IN Holds(ActivePointer(Cur), LastPointer(Cur))

\* Two profiles with tokens are the active and the last one, and the toggle
\* moves the active pointer.
C3_Witness ==
    /\ Settled
    /\ LET Toggled(p1, p2, r1) ==
               /\ p1 # NoId /\ p2 # NoId /\ p1 # p2
               /\ HasTokens(Cur, p1) /\ HasTokens(Cur, p2)
               /\ r1.ret = p2 /\ ActivePointer(r1.s) = p2
               /\ toggleLastProfileId(r1.s, IoOk).ret = p1
       IN Toggled(ActivePointer(Cur), LastPointer(Cur), toggleLastProfileId(Cur, IoOk))

(* C4: after deleteProfile(id) returns true, id is absent from the         *)
(* registry, the secret store holds no entry for id under either key,      *)
(* loadAuthData(id) returns null, neither pointer equals id, and a pointer *)
(* that named another profile keeps its value.                             *)
(* The call is made while no other call is in progress.                    *)
C4_DeleteCascades ==
    Settled =>
        \A id \in ProfileIds :
            LET Holds(r) ==
                    r.ret =>
                        /\ id \notin RegistryIds(r.s)
                        /\ r.s.secrets[secretKey(id)] = NoSecret
                        /\ r.s.secrets[legacySecretKey(id)] = NoSecret
                        /\ ~HasTokens(r.s, id)
                        /\ ActivePointer(r.s) # id
                        /\ LastPointer(r.s) # id
                        /\ ActivePointer(Cur) # id => ActivePointer(r.s) = ActivePointer(Cur)
                        /\ LastPointer(Cur) # id => LastPointer(r.s) = LastPointer(Cur)
            IN Holds(deleteProfile(Cur, id))

-----------------------------------------------------------------------------
\* The registry's profiles, as a set.
RegistryProfiles(s) == {readProfilesFile(s)[i] : i \in 1..Len(readProfilesFile(s))}
\* The two criteria of a duplicate, in the words of the specification.
NonEmpty(v) == v # Undefined /\ v # ""
SameAccount(profile, authData) ==
    /\ NonEmpty(profile.accountId) /\ NonEmpty(authData.accountId)
    /\ profile.accountId = authData.accountId
SameEmail(profile, authData) ==
    /\ normalizeEmail(profile.email) = normalizeEmail(authData.email)
    /\ normalizeEmail(profile.email) # <<>>
    /\ normalizeEmail(profile.email) # Str_unknown

(* C5: when the registry contains one profile whose non-empty accountId     *)
(* equals the credential's accountId and a different profile that matches   *)
(* the credential only by normalized email, findDuplicateProfile returns    *)
(* the accountId-matching profile, whatever the order of the two in the     *)
(* registry.                                                                *)
C5_AccountMatchBeatsEmailMatch ==
    lastCall.fn = "findDuplicateProfile" =>
        \A p \in RegistryProfiles(Cur), q \in RegistryProfiles(Cur) :
            (/\ p # q
             /\ SameAccount(p, lastCall.authData)
             /\ ~SameAccount(q, lastCall.authData)
             /\ SameEmail(q, lastCall.authData)) =>
                /\ lastCall.found
                /\ SameAccount(lastCall.profile, lastCall.authData)

(* C6: findDuplicateProfile(credential) returns a profile if and only if    *)
(* some registry profile has a non-empty accountId equal to the             *)
(* credential's, or a trimmed lower-cased email equal to the credential's   *)
(* with both non-empty and different from "unknown"; two "Unknown" emails   *)
(* never match, and emails differing only in case or surrounding blanks do. *)
C6_DuplicateIffAccountOrEmail ==
    lastCall.fn = "findDuplicateProfile" =>
        /\ lastCall.found <=>
              \E p \in RegistryProfiles(Cur) :
                  SameAccount(p, lastCall.authData) \/ SameEmail(p, lastCall.authData)
        /\ lastCall.found => lastCall.profile \in RegistryProfiles(Cur)
        /\ (/\ lastCall.authData.email = Str_Unknown
            /\ \A p \in RegistryProfiles(Cur) :
                   p.email = Str_Unknown /\ ~SameAccount(p, lastCall.authData))
              => ~lastCall.found
        /\ (/\ lastCall.authData.email = Str_A_X
            /\ \E p \in RegistryProfiles(Cur) : p.email = Str_a_x)
              => lastCall.found

\* A credential without account id whose e-mail differs from a profile's only
\* in case and blanks was found to duplicate it, next to a profile with the
\* e-mail "Unknown" that it does not duplicate.
C6_Witness ==
    /\ lastCall.fn = "findDuplicateProfile"
    /\ lastCall.authData.email = Str_A_X /\ lastCall.authData.accountId = Undefined
    /\ lastCall.found /\ lastCall.profile.email = Str_a_x
    /\ lastCall.profile.accountId = "A2"
    /\ \E p \in RegistryProfiles(Cur) : p.email = Str_Unknown /\ p.id < lastCall.profile.id

(* C7: replaceProfileAuth(id, credential) on an id of the registry keeps    *)
(* the registry size, leaves the entry's id, name and createdAt and every   *)
(* other entry unchanged, sets the entry's email, planType, accountId and   *)
(* updatedAt from the credential and the clock, and afterwards              *)
(* loadAuthData(id) returns the credential's three tokens, accountId and    *)
(* raw payload.                                                             *)
C7_ReplaceKeepsFrame ==
    \A id \in ProfileIds, authData \in AuthInputs :
        LET Holds(before, r, after, loaded) ==
              (\E i \in 1..Len(before) : before[i].id = id) =>
              /\ r.ret /\ ~r.threw
              /\ Len(after) = Len(before)
              /\ \A i \in 1..Len(before) :
                    IF before[i].id # id THEN after[i] = before[i]
                    ELSE /\ after[i].id = id
                         /\ after[i].name = before[i].name
                         /\ after[i].createdAt = before[i].createdAt
                         /\ after[i].email = authData.email
                         /\ after[i].planType = authData.planType
                         /\ after[i].accountId = authData.accountId
                         /\ after[i].updatedAt = now
              /\ loaded.ok
              /\ loaded.data.idToken = authData.idToken
              /\ loaded.data.accessToken = authData.accessToken
              /\ loaded.data.refreshToken = authData.refreshToken
              /\ loaded.data.accountId = authData.accountId
              /\ loaded.data.authJson = authData.authJson
        IN Holds(readProfilesFile(Cur),
                 replaceProfileAuth(Cur, id, authData),
                 readProfilesFile(replaceProfileAuth(Cur, id, authData).s),
                 loadAuthData(replaceProfileAuth(Cur, id, authData).s, id).ret)

\* The second of two profiles, created earlier under account A1 and then
\* renamed, has had its credential replaced by one without account id: its
\* entry and its secret changed and the first entry is as it was created.
C7_Witness ==
    LET profiles == readProfilesFile(Cur)
    IN /\ Len(profiles) = 2
       /\ profiles[2].createdAt < profiles[2].updatedAt
       /\ profiles[2].email = Str_Unknown /\ profiles[2].accountId = Undefined
       /\ profiles[2].name = "home"
       /\ loadAuthData(Cur, profiles[2].id).ret.data.idToken = AuthB.idToken
       /\ profiles[1].accountId = "A1" /\ profiles[1].updatedAt = profiles[1].createdAt
       /\ replaceProfileAuth(Cur, profiles[2].id, AuthB).s = Cur

-----------------------------------------------------------------------------
\* Every token and every raw payload the secret store holds.
SecretStrings(s) ==
    UNION {{s.secrets[k].value.idToken, s.secrets[k].value.accessToken,
            s.secrets[k].value.refreshToken} : k \in {k \in SecretKeys : s.secrets[k].parsable}}
        \ {Undefined}
SecretPayloads(s) ==
    {s.secrets[k].value.authJson : k \in {k \in SecretKeys : s.secrets[k].parsable}} \ {NoJson}
\* The values the registry file keeps for its entries.
RegistryStrings(s) ==
    UNION {{p.name, p.planType, p.accountId} : p \in RegistryProfiles(s)}
\* The registry file of state s holds none of the secrets of state s.
RegistryHoldsNoSecret(s) ==
    /\ RegistryStrings(s) \cap SecretStrings(s) = {}
    /\ \A p \in RegistryProfiles(s) :
          /\ DOMAIN p = {"id", "name", "email", "planType", "accountId", "createdAt", "updatedAt"}
          /\ \A payload \in SecretPayloads(s) :
                {p.name, p.planType, p.accountId}
                    \cap {payload.OPENAI_API_KEY, payload.tokens.id_token,
                          payload.tokens.access_token, payload.tokens.refresh_token} = {}

(* C8: in every state reached through create, replace, rename, delete and   *)
(* legacy migration, and after a set-active or a toggle from such a state,  *)
(* the registry file contains no token value and no raw payload of any      *)
(* profile; they are held in the secret store only.                         *)
C8_RegistryHoldsNoSecret ==
    /\ RegistryHoldsNoSecret(Cur)
    /\ RegistryHoldsNoSecret(toggleLastProfileId(Cur, IoOk).s)
    /\ \A id \in {NoId} \cup ProfileIds :
          RegistryHoldsNoSecret(setActiveProfileId(Cur, id, IoOk).s)

\* The registry adopted from the legacy directory holds two entries, and the
\* secret store holds the tokens and the raw payload of the second.
C8_Witness ==
    /\ Len(readProfilesFile(Cur)) = 2
    /\ legacyDir # <<>> /\ migratedLegacy
    /\ SecretStrings(Cur) # {} /\ SecretPayloads(Cur) # {}
    /\ \E p \in RegistryProfiles(Cur) : p.id = 2 /\ p.accountId = "A1"

-----------------------------------------------------------------------------
(* C9: during a sync write whose rename step succeeds, at every             *)
(* intermediate step the target credential path holds either the complete   *)
(* previous content or the complete new content, never a partial file and   *)
(* never no file when one existed before.                                   *)
C9_TargetIsOldOrNew ==
    (writer.pc # "idle" /\ ~writer.renameFailed) =>
        /\ authFile \in {writer.old, WholeFile(writer.content)}
        /\ writer.old.complete => authFile.complete
        /\ writer.old.exists => authFile.exists

\* The rename has just put the new content in the place of a complete file
\* with another content, and the call has not returned yet.
C9_Witness ==
    /\ writer.pc = "cleanup" /\ ~writer.renameFailed
    /\ writer.old.exists /\ writer.old.complete
    /\ authFile = WholeFile(writer.content)
    /\ authFile # writer.old
    /\ writer.writes > 0

(* C10: after N consecutive sync writes with retention R where R < N,       *)
(* exactly R backup files exist beside the target, and they are the R       *)
(* backups with the most recent timestamps.                                 *)
C10_RetentionKeepsNewest ==
    (/\ writer.pc = "idle" /\ writer.opts.given
     /\ ~writer.backupFailed /\ ~writer.pruneFailed
     /\ writer.opts.maxBackups < writer.writes) =>
        /\ Cardinality(backups) = writer.opts.maxBackups
        /\ \A b \in backups :
              \A made \in writer.made \ {c.suffix : c \in backups} : made < b.suffix

(* C11: with retention 0, no sync write ever creates a backup file,         *)
(* whether or not the target file already exists.                           *)
C11_RetentionZeroMakesNoBackup ==
    (writer.opts.given /\ writer.opts.maxBackups = 0) =>
        /\ backups = {}
        /\ writer.made = {}

\* Two writes with retention 0 have completed, the second over the file the
\* first one wrote, and there is no backup.
C11_Witness ==
    /\ writer.opts = Opts(0)
    /\ writer.pc = "idle" /\ writer.writes = 2
    /\ writer.old.exists /\ authFile # writer.old
    /\ backups = {}

-----------------------------------------------------------------------------
\* The values of the backup-retention setting the specification describes.
ConfiguredRetentions == 0..MaxRetention

(* C12: the sync writes triggered by setActiveProfileId and by the startup  *)
(* sync honour the configured backup-retention count R: after such a sync   *)
(* at most R backup files remain, and with R = 0 the sync creates no        *)
(* backup.                                                                  *)
(* The call is made while no other call is in progress.                     *)
C12_SyncHonoursConfiguredRetention ==
    Settled =>
        \A retention \in ConfiguredRetentions :
            LET Honoured(r) ==
                    /\ Cardinality(r.s.backups) <= retention
                    /\ retention = 0 => r.s.backups = backups
                Accepted(r) == (~r.threw /\ r.ret) => Honoured(r)
                Started(r) ==
                    (~r.threw /\ r.s.lastSyncedProfileId # lastSyncedProfileId) => Honoured(r)
            IN /\ \A id \in ProfileIds : Accepted(setActiveProfileId(Cur, id, IoOk))
               /\ Started(syncActiveProfileToCodexAuthFile(Cur, IoOk))

-----------------------------------------------------------------------------
(* C13: when writing the external credential file fails during a sync      *)
(* triggered by setActiveProfileId or by the startup sync (mkdir fails,    *)
(* the temporary file cannot be written, rename and the copy fallback both *)
(* fail), the failure is not raised to the caller: whenever the call       *)
(* completes normally with working I/O, it completes normally with every   *)
(* failing I/O outcome too.                                                *)
(* The call is made while no other call is in progress.                    *)
C13_SyncFailureIsNotRaised ==
    Settled =>
        \A io \in IoUnpruned :
            LET Quiet(ok, r) == ~ok.threw => ~r.threw
            IN /\ \A id \in ProfileIds :
                    Quiet(setActiveProfileId(Cur, id, IoOk), setActiveProfileId(Cur, id, io))
               /\ Quiet(syncActiveProfileToCodexAuthFile(Cur, IoOk),
                        syncActiveProfileToCodexAuthFile(Cur, io))

-----------------------------------------------------------------------------
(* auth-manager.ts: reading a credential file, and the specification of    *)
(* the file format: a record is written to the file and the file is parsed *)
(* back.                                                                   *)

\* The claims in the payload segment of an id token.  A token that has not
\* three segments or whose payload is not JSON gives {}; so does undefined,
\* on which split throws.
parseJWT(token) ==
    IF token = "idA.1" THEN [email |-> Str_a_x, chatgpt_plan_type |-> "pro"]
    ELSE IF token = "idA.2" THEN [email |-> Str_a_x, chatgpt_plan_type |-> "plus"]
    ELSE [email |-> UndefinedStr, chatgpt_plan_type |-> Undefined]

\* null for a missing file, for content JSON.parse rejects, for JSON that is
\* not an object and for an object without tokens; every field of the record
\* is read from the file's tokens, the payload is the whole parsed file.
loadAuthDataFromFile(file) ==
    IF ~file.exists \/ ~file.complete THEN NoLoad
    ELSE IF ~file.json.isObject \/ ~file.json.tokens.isObject THEN NoLoad
    ELSE LET claims == parseJWT(file.json.tokens.id_token)
         IN [found |-> TRUE,
             authData |->
                 [idToken |-> file.json.tokens.id_token,
                  accessToken |-> file.json.tokens.access_token,
                  refreshToken |-> file.json.tokens.refresh_token,
                  accountId |-> file.json.tokens.account_id,
                  email |-> IF claims.email = UndefinedStr \/ claims.email = <<>>
                            THEN Str_Unknown ELSE claims.email,
                  planType |-> IF Truthy(claims.chatgpt_plan_type)
                               THEN claims.chatgpt_plan_type ELSE "Unknown",
                  authJson |-> file.json]]

\* Credential records: the tokens of two logins, with or without an account
\* id, and as raw payload nothing, {}, a payload without tokens, the payload
\* of a login, and that payload without its tokens.account_id.
CodecRecords ==
    {[idToken |-> t[1], accessToken |-> t[2], refreshToken |-> t[3],
      accountId |-> a, email |-> Str_a_x, planType |-> "pro", authJson |-> j] :
        t \in {<<"idA.2", "acA.2", "rfA.2">>, <<"idB.1", "acB.1", "rfB.1">>},
        a \in {Undefined, "A1", "B1"},
        j \in {NoJson, EmptyJson, [JsonA1 EXCEPT !.tokens = NoTokens], JsonA1,
               [JsonA1 EXCEPT !.tokens = [JsonA1.tokens EXCEPT !.account_id = Undefined]]}}

InitCodec ==
    /\ profilesFile = NoProfilesFile
    /\ secrets = NoSecrets
    /\ memento = EmptyMemento
    /\ legacyDir = <<>>
    /\ nextId = 1
    /\ migratedLegacy = TRUE
    /\ scopeNew = Undefined /\ scopeOld = "global"
    /\ lastSyncedProfileId = NoId
    /\ authFile = NoFile
    /\ backups = {}
    /\ now = 0
    /\ writer = IdleWriter
    /\ \E record \in CodecRecords :
           lastCall = [NoCall EXCEPT !.fn = "syncCodexAuthFile", !.authData = record]
    /\ lastLoad = NoLoad
    /\ tasks = NoTasks

\* syncCodexAuthFile(getDefaultCodexAuthPath(), record), with any I/O
\* outcome.  The file is built at line 81, when mkdirSync has returned.
SyncRecord ==
    /\ \E io \in IoOutcomes :
           LET Written(r) == authFile' = r.s.authFile /\ backups' = r.s.backups
           IN /\ Written(syncCodexAuthFile(Cur, lastCall.authData, NoOpts, io))
              /\ lastCall' = [lastCall EXCEPT !.authData =
                                  IF io.mkdirOk THEN recordAfterBuild(@) ELSE @]
    /\ UNCHANGED <<profilesFile, secrets, memento, migratedLegacy, scopeNew, scopeOld,
                   legacyDir, lastSyncedProfileId, now, nextId, writer, lastLoad, tasks>>

LoadAuthDataFromFile ==
    /\ lastLoad' = loadAuthDataFromFile(authFile)
    /\ UNCHANGED <<profilesFile, secrets, memento, migratedLegacy, scopeNew, scopeOld,
                   legacyDir, lastSyncedProfileId, authFile, backups, now, nextId,
                   writer, lastCall, tasks>>

NextCodec == SyncRecord \/ LoadAuthDataFromFile

SpecCodec == InitCodec /\ [][NextCodec]_vars

(* C14: for every credential record, parsing the file produced by writing  *)
(* that record yields a record with the same idToken, accessToken,         *)
(* refreshToken and accountId; a record without accountId yields no        *)
(* accountId even when its raw payload carries a tokens.account_id.        *)
C14_RoundTripKeepsCredentials ==
    lastLoad.found =>
        /\ lastLoad.authData.idToken = lastCall.authData.idToken
        /\ lastLoad.authData.accessToken = lastCall.authData.accessToken
        /\ lastLoad.authData.refreshToken = lastCall.authData.refreshToken
        /\ lastLoad.authData.accountId = lastCall.authData.accountId

(* C15: for every record with a raw payload, the written file keeps every  *)
(* top-level field of the payload (OPENAI_API_KEY) and every field of its  *)
(* tokens object other than id_token, access_token, refresh_token and      *)
(* account_id (last_refresh) with its original value, and the write leaves *)
(* the record's own raw payload unmodified.                                *)
C15_WriteKeepsOtherFields ==
    [][/\ lastCall'.authData.authJson = lastCall.authData.authJson
       /\ (authFile'.complete /\ lastCall.authData.authJson.isObject) =>
              /\ authFile'.json.OPENAI_API_KEY = lastCall.authData.authJson.OPENAI_API_KEY
              /\ lastCall.authData.authJson.tokens.isObject =>
                     authFile'.json.tokens.last_refresh =
                         lastCall.authData.authJson.tokens.last_refresh]_vars

\* A record with the tokens of one login over the payload of another has
\* been written: the file has the record's tokens and the payload's rest.
C15_Witness ==
    /\ lastCall.authData.idToken = "idB.1" /\ lastCall.authData.accountId = "B1"
    /\ lastCall.authData.authJson = JsonA1
    /\ authFile.complete
    /\ authFile.json.tokens.id_token = "idB.1"
    /\ authFile.json.tokens.account_id = "B1"
    /\ authFile.json.OPENAI_API_KEY = "sk-A"
    /\ authFile.json.tokens.last_refresh = "t1"

-----------------------------------------------------------------------------
(* The specification of the registry reader: profiles.json holds any       *)
(* content and the profiles are listed.                                    *)

\* The contents of profiles.json: text that is not JSON, a scalar or null,
\* an object without a profiles array, and an array, a { profiles } object
\* and a { version: 1, profiles } object whose elements are profiles or are
\* not (NoProfile stands for {} or a number: an element without a name;
\* NullProfile for null).
RegistryContents ==
    {[exists |-> TRUE, shape |-> shape, profiles |-> <<>>] :
        shape \in {"invalid", "scalar", "object"}}
    \cup {[exists |-> TRUE, shape |-> shape, profiles |-> profiles] :
            shape \in {"array", "bare", "versioned"},
            profiles \in UNION {[1..n -> {NoProfile, NullProfile, OldProfile,
                                          ProfileSummary(2, "home", Str_Unknown, "Unknown",
                                                         Undefined, 0, 0)}] :
                                n \in 0..MaxProfiles}}

InitRegistry ==
    /\ profilesFile \in RegistryContents
    /\ secrets = NoSecrets
    /\ memento = EmptyMemento
    /\ \/ legacyDir = <<>>
       \/ legacyDir = <<[name |-> "codex-stats", file |-> VersionedFile(<<OldProfile>>)]>>
    /\ nextId = 3
    /\ migratedLegacy = FALSE
    /\ scopeNew = Undefined /\ scopeOld = "global"
    /\ lastSyncedProfileId = NoId
    /\ authFile = NoFile
    /\ backups = {}
    /\ now = 0
    /\ writer = IdleWriter
    /\ lastCall = NoCall
    /\ lastLoad = NoLoad
    /\ tasks = NoTasks

NextRegistry ==
    \/ ListProfiles(OneAtATime)
    \/ Resume

SpecRegistry == InitRegistry /\ [][NextRegistry]_vars

(* C16: for every possible content of the registry file (invalid JSON, a   *)
(* JSON scalar or null, an object without a profiles array, an array or    *)
(* profiles array whose elements are not profile objects), listProfiles    *)
(* returns a list without raising, and for invalid JSON or an unrecognized *)
(* shape that list is empty.                                               *)
C16_ListProfilesNeverRaises ==
    LET Listed(r) ==
            /\ ~r.threw
            /\ profilesFile.shape \in {"invalid", "scalar", "object"} => r.ret = <<>>
    IN Listed(listProfiles(Cur))

-----------------------------------------------------------------------------
-----------------------------------------------------------------------------
(* C18: setActiveProfileId(undefined) returns true from every state; after *)
(* it completes getActiveProfileId returns undefined (also when legacy     *)
(* keys exist in either bucket), and the last pointer, the external        *)
(* credential file and its backups are unchanged.                          *)
(* The call is made while no other call is in progress.                    *)
C18_ClearActiveClearsPointer ==
    Settled =>
        \A io \in IoUnpruned :
            LET Cleared(r) ==
                    /\ ~r.threw /\ r.ret
                    /\ ActivePointer(r.s) = NoId
                    /\ LastPointer(r.s) = LastPointer(Cur)
                    /\ r.s.authFile = authFile
                    /\ r.s.backups = backups
            IN Cleared(setActiveProfileId(Cur, NoId, io))

-----------------------------------------------------------------------------
(* C19: after an accepted setActiveProfileId(id) with a defined id: if the *)
(* previously active id p was set and differs from id, the last pointer    *)
(* equals p; if no profile was active or p equals id, the last pointer     *)
(* keeps its previous value.                                               *)
(* The call is made while no other call is in progress.                    *)
C19_SetActiveRecordsPrevious ==
    Settled =>
        \A id \in ProfileIds, io \in IoUnpruned :
            LET Holds(p, last, r) ==
                    (~r.threw /\ r.ret) =>
                        LastPointer(r.s) = IF p # NoId /\ p # id THEN p ELSE last
            IN Holds(ActivePointer(Cur), LastPointer(Cur), setActiveProfileId(Cur, id, io))

-----------------------------------------------------------------------------
(* C20: after every successful toggleLastProfileId, from any state         *)
(* including one with no active profile, the active pointer equals the     *)
(* former last id and the last pointer equals the active id held just      *)
(* before the toggle, so that the next toggle reverses this one.           *)
(* The call is made while no other call is in progress.                    *)
C20_ToggleAlwaysSwaps ==
    Settled =>
        \A io \in IoUnpruned :
            LET Holds(a, l, r) ==
                    (~r.threw /\ r.ret # NoId) =>
                        /\ ActivePointer(r.s) = l /\ LastPointer(r.s) = a
                        /\ LET Reversed(r2) ==
                                   ActivePointer(r2.s) = a /\ LastPointer(r2.s) = l
                           IN Reversed(toggleLastProfileId(r.s, IoOk))
            IN Holds(ActivePointer(Cur), LastPointer(Cur), toggleLastProfileId(Cur, io))

-----------------------------------------------------------------------------
(* C21: toggleLastProfileId returns undefined and leaves the active        *)
(* pointer, the last pointer and the external credential file unchanged    *)
(* whenever the last pointer is unset or the profile it names has no       *)
(* loadable tokens.                                                        *)
(* The call is made while no other call is in progress.                    *)
C21_FailedToggleChangesNothing ==
    Settled =>
        \A io \in IoUnpruned :
            LET Holds(a, l, r) ==
                    (l = NoId \/ ~HasTokens(Cur, l)) =>
                        /\ ~r.threw /\ r.ret = NoId
                        /\ ActivePointer(r.s) = a
                        /\ LastPointer(r.s) = l
                        /\ r.s.authFile = authFile
                        /\ r.s.backups = backups
            IN Holds(ActivePointer(Cur), LastPointer(Cur), toggleLastProfileId(Cur, io))

\* Another profile is active, and the last pointer names a profile whose
\* tokens do not load: the toggle is refused.
C21_Witness ==
    /\ Settled
    /\ LET Refused(a, l, r) ==
               /\ l # NoId /\ a \notin {NoId, l}
               /\ ~HasTokens(Cur, l)
               /\ r.ret = NoId /\ LastPointer(r.s) = l
       IN Refused(ActivePointer(Cur), LastPointer(Cur), toggleLastProfileId(Cur, IoOk))

-----------------------------------------------------------------------------
(* C22: whenever a sync is requested for a profile id equal to the id most *)
(* recently synced in this process, through setActiveProfileId as well as  *)
(* through syncActiveProfileToCodexAuthFile, the external credential file  *)
(* is not rewritten and no backup is created.                              *)
(* The call is made while no other call is in progress.                    *)
C22_SyncOfSyncedIdIsSkipped ==
    Settled =>
        LET Skipped(r) == r.s.authFile = authFile /\ r.s.backups = backups
            Startup(a) ==
                (a # NoId /\ a = lastSyncedProfileId) =>
                    Skipped(syncActiveProfileToCodexAuthFile(Cur, IoOk))
        IN /\ \A id \in ProfileIds :
                id = lastSyncedProfileId => Skipped(setActiveProfileId(Cur, id, IoOk))
           /\ Startup(ActivePointer(Cur))

-----------------------------------------------------------------------------
(* C23: once the first listProfiles call has completed, the one-time       *)
(* migration flag is set, the flag stays set in every later state, and     *)
(* with the flag set the legacy migration never changes the registry, even *)
(* if the registry has become empty again and a legacy directory with      *)
(* profiles is present.                                                    *)
C23_MigrationRunsOnce ==
    [][/\ listProfiles(Cur).s.migratedLegacy
       /\ migratedLegacy =>
              /\ migratedLegacy'
              /\ tryMigrateLegacyProfilesOnce(Cur).profilesFile = profilesFile
              /\ listProfiles(Cur).s.profilesFile = profilesFile]_vars

\* The profile adopted from the legacy directory was deleted: the registry is
\* empty again, the legacy directory still holds its profile, the flag is set.
C23_Witness ==
    /\ Settled
    /\ migratedLegacy
    /\ profilesFile = VersionedFile(<<>>)
    /\ Len(legacyDir) > 0
    /\ Len(parseProfilesFile(legacyDir[1].file).profiles) > 0
    /\ listProfiles(Cur).ret = <<>>

-----------------------------------------------------------------------------
\* The ids of the registry that the legacy directory holds too: the profiles
\* the migration adopted.
AdoptedIds(s) ==
    {id \in RegistryIds(s) :
        \E d \in 1..Len(s.legacyDir) :
            \E i \in 1..Len(parseProfilesFile(s.legacyDir[d].file).profiles) :
                parseProfilesFile(s.legacyDir[d].file).profiles[i].id = id}

(* C24: legacy migration leaves the secret store unchanged; every profile  *)
(* adopted by migration has no loadable tokens, so setActiveProfileId on   *)
(* it is rejected, until replaceProfileAuth stores tokens for it (no other *)
(* step makes its tokens loadable), after which setActiveProfileId on it   *)
(* is accepted.                                                            *)
C24_AdoptedProfileNeedsReimport ==
    [][/\ LET Migrated(m) ==
                  /\ m.secrets = secrets
                  /\ m.profilesFile # profilesFile =>
                         \A id \in AdoptedIds(m) :
                             /\ ~HasTokens(m, id)
                             /\ ~setActiveProfileId(m, id, IoOk).ret
                             /\ \A authData \in AuthInputs :
                                    LET Stored(r) ==
                                            /\ r.ret /\ HasTokens(r.s, id)
                                            /\ setActiveProfileId(r.s, id, IoOk).ret
                                    IN Stored(replaceProfileAuth(m, id, authData))
          IN Migrated(tryMigrateLegacyProfilesOnce(Cur))
       /\ \A id \in AdoptedIds(Cur) :
              /\ HasTokens(Cur, id) <=> setActiveProfileId(Cur, id, IoOk).ret
              /\ (~HasTokens(Cur, id) /\ HasTokens(Cur', id)) =>
                     \E authData \in AuthInputs :
                         secrets' = replaceProfileAuth(Cur, id, authData).s.secrets]_vars

\* The profile adopted from the legacy directory was given tokens and was
\* then activated.
C24_Witness ==
    /\ Settled
    /\ \E id \in AdoptedIds(Cur) :
           /\ secrets[secretKey(id)].present
           /\ HasTokens(Cur, id)
           /\ ActivePointer(Cur) = id /\ lastSyncedProfileId = id

-----------------------------------------------------------------------------
(* C25: whenever an operation observes an active or last pointer whose id  *)
(* is not in the registry (the UI refresh for the active pointer,          *)
(* toggleLastProfileId for the last pointer), that pointer is unset by the *)
(* time the operation completes.                                           *)
(* The call is made while no other call is in progress.                    *)
C25_StalePointerIsCleared ==
    Settled =>
        LET Refreshed(a, r) ==
                (a # NoId /\ a \notin RegistryIds(Cur)) => ActivePointer(r.s) = NoId
            Toggled(l, r) ==
                (l # NoId /\ l \notin RegistryIds(Cur)) => LastPointer(r.s) = NoId
        IN /\ Refreshed(ActivePointer(Cur), refreshProfileUi(Cur))
           /\ \A io \in IoUnpruned : Toggled(LastPointer(Cur), toggleLastProfileId(Cur, io))

-----------------------------------------------------------------------------
(* C26: when the new active-profile key is unset in the configured bucket  *)
(* and a legacy-named key holds v in the configured bucket or in the       *)
(* legacy bucket, getActiveProfileId returns v, stores v under the new key *)
(* in the configured bucket and clears the legacy-named key in both        *)
(* buckets, so a second read returns v from the new key; when the new key  *)
(* is set it is returned and the legacy key is ignored.                    *)
(* The call is made while no other call is in progress.                    *)
C26_LegacyActiveKeyMigratesOnRead ==
    Settled =>
        LET Holds(bucket, legacyBucket, r) ==
                LET new == memento[bucket][ACTIVE_PROFILE_KEY]
                    v == IF memento[bucket][OLD_ACTIVE_PROFILE_KEY] # NoId
                         THEN memento[bucket][OLD_ACTIVE_PROFILE_KEY]
                         ELSE memento[legacyBucket][OLD_ACTIVE_PROFILE_KEY]
                IN IF new # NoId THEN r.ret = new /\ r.s = Cur
                   ELSE IF v # NoId
                   THEN /\ r.ret = v
                        /\ r.s.memento[bucket][ACTIVE_PROFILE_KEY] = v
                        /\ r.s.memento[bucket][OLD_ACTIVE_PROFILE_KEY] = NoId
                        /\ r.s.memento[legacyBucket][OLD_ACTIVE_PROFILE_KEY] = NoId
                        /\ r.s.memento[bucket][LAST_PROFILE_KEY] = memento[bucket][LAST_PROFILE_KEY]
                        /\ getActiveProfileId(r.s) = Res(r.s, v)
                   ELSE r.ret = NoId /\ r.s = Cur
        IN Holds(getStateBucket(Cur), getLegacyStateBucket(Cur), getActiveProfileId(Cur))

\* The new key is unset, the configured bucket is not the legacy bucket, and
\* only the legacy bucket holds the legacy-named key.
C26_Witness ==
    /\ Settled
    /\ getStateBucket(Cur) # getLegacyStateBucket(Cur)
    /\ memento[getStateBucket(Cur)][ACTIVE_PROFILE_KEY] = NoId
    /\ memento[getStateBucket(Cur)][OLD_ACTIVE_PROFILE_KEY] = NoId
    /\ memento[getLegacyStateBucket(Cur)][OLD_ACTIVE_PROFILE_KEY] # NoId
    /\ getActiveProfileId(Cur).ret = memento[getLegacyStateBucket(Cur)][OLD_ACTIVE_PROFILE_KEY]

-----------------------------------------------------------------------------
(* C27: in every state reachable by completed createProfile,               *)
(* setActiveProfileId, toggleLastProfileId and deleteProfile under one     *)
(* fixed scope, whenever the active pointer and the last pointer are both  *)
(* set they name different profiles.                                       *)
(* The call is made while no other call is in progress.                    *)
C27_PointersAlwaysDiffer ==
    Settled =>
        LET Differ(a, l) == (a # NoId /\ l # NoId) => a # l
        IN Differ(ActivePointer(Cur), LastPointer(Cur))


-----------------------------------------------------------------------------
(* The asynchronous calls of ProfileManager beside one another.  A call    *)
(* runs until it awaits, and another call may run before it resumes.  The  *)
(* specification starts MaxCalls calls of any methods, on a fresh          *)
(* installation or on one with imported profiles, and resumes them in any  *)
(* order; it records the calls that ended.                                 *)

\* The window was reloaded on an installation with `count` imported
\* profiles, the profile `active` being the active one: the credential file
\* holds its tokens and the de-duplication cache of the new process is empty.
RaceStart(count, active) ==
    LET fresh == [profilesFile |-> NoProfilesFile, secrets |-> NoSecrets,
                  memento |-> EmptyMemento, migratedLegacy |-> FALSE,
                  scopeNew |-> Undefined, scopeOld |-> "global", legacyDir |-> <<>>,
                  lastSyncedProfileId |-> NoId, authFile |-> WholeFile(JsonA1),
                  backups |-> {}, now |-> 0, nextId |-> 1]
        Reloaded(s) == [s EXCEPT !.lastSyncedProfileId = NoId]
        home == createProfile(fresh, "home", AuthA1).s
    IN Reloaded(setActiveProfileId(
           IF count = 1 THEN home ELSE createProfile(home, "work", AuthB).s,
           active, IoOk).s)

InitRace ==
    /\ \/ /\ InitFresh
          /\ migratedLegacy = FALSE
          /\ scopeNew = Undefined /\ scopeOld = "global"
          /\ lastSyncedProfileId = NoId
          /\ authFile = WholeFile(JsonA1)
          /\ backups = {}
          /\ now = 0
       \/ \E count \in 1..MaxProfiles : \E active \in 0..count :
              LET Starts(s) ==
                      /\ profilesFile = s.profilesFile
                      /\ secrets = s.secrets
                      /\ memento = s.memento
                      /\ migratedLegacy = s.migratedLegacy
                      /\ scopeNew = s.scopeNew
                      /\ scopeOld = s.scopeOld
                      /\ legacyDir = s.legacyDir
                      /\ lastSyncedProfileId = s.lastSyncedProfileId
                      /\ authFile = s.authFile
                      /\ backups = s.backups
                      /\ now = s.now
                      /\ nextId = s.nextId
              IN Starts(RaceStart(count, active))
    /\ writer = IdleWriter
    /\ lastCall = NoCall
    /\ lastLoad = NoLoad
    /\ tasks = NoTasks

NextRace ==
    \/ ListProfiles(Overlapping)
    \/ CreateProfile(Names, {AuthA1, AuthB}, Overlapping)
    \/ ReplaceProfileAuth({AuthB}, Overlapping)
    \/ RenameProfile(Overlapping)
    \/ DeleteProfile(Overlapping)
    \/ GetActiveProfileId(Overlapping)
    \/ GetLastProfileId(Overlapping)
    \/ SetActiveProfileId({IoOk}, Overlapping)
    \/ ToggleLastProfileId({IoOk}, Overlapping)
    \/ SyncActiveProfileToCodexAuthFile({IoOk}, Overlapping)
    \/ RefreshProfileUi(Overlapping)
    \/ Resume

SpecRace == InitRace /\ [][NextRace]_vars

\* Every call the specification starts has ended.
BothCompleted == Settled /\ Cardinality(tasks.done) = MaxCalls

-----------------------------------------------------------------------------
(* C28: for every interleaving of the startup sync with a                  *)
(* setActiveProfileId call for another profile, once both have completed   *)
(* the credential file holds the tokens of the profile the active pointer  *)
(* names. The code does not keep this: a startup sync that loaded the      *)
(* tokens of the old active profile before the switch writes them after it. *)
C28_RacedSyncLeavesActiveTokens ==
    LET Holds(a) ==
            (a # NoId /\ HasTokens(Cur, a)) =>
                FileHoldsTokens(authFile, StoredTokens(Cur, a))
    IN (/\ BothCompleted
        /\ \E d \in tasks.done : d.fn = "syncActiveProfileToCodexAuthFile"
        /\ \E d \in tasks.done : d.fn = "setActiveProfileId" /\ d.id # NoId)
           => Holds(ActivePointer(Cur))

-----------------------------------------------------------------------------
(* C29: for every interleaving of deleteProfile(id) with                   *)
(* setActiveProfileId(id), once both have completed the active pointer     *)
(* does not name the deleted profile. The code does not keep this: a       *)
(* switch that loaded the tokens before the deletion stores the pointer    *)
(* after deleteProfile looked for it.                                      *)
C29_RacedDeleteClearsActive ==
    \A id \in ProfileIds :
        (/\ BothCompleted
         /\ \E d \in tasks.done : d.fn = "deleteProfile" /\ d.id = id /\ d.ok
         /\ \E d \in tasks.done : d.fn = "setActiveProfileId" /\ d.id = id)
            => ActivePointer(Cur) # id

-----------------------------------------------------------------------------
(* C30: whenever syncActiveProfileToCodexAuthFile completes while the      *)
(* active profile has stored tokens, the tokens of the credential file     *)
(* equal the tokens stored for that profile, also when replaceProfileAuth  *)
(* changed them after the profile was last synced. The code does not keep  *)
(* this: the sync is skipped for the id that was synced last, whatever     *)
(* happened to its tokens since.                                           *)
(* The call is made while no other call is in progress.                    *)
C30_SyncWritesStoredTokens ==
    Settled =>
        LET Completed(r) ==
                LET Holds(a) ==
                        (a # NoId /\ HasTokens(r.s, a)) =>
                            FileHoldsTokens(r.s.authFile, StoredTokens(r.s, a))
                IN ~r.threw => Holds(ActivePointer(r.s))
        IN Completed(syncActiveProfileToCodexAuthFile(Cur, IoOk))

-----------------------------------------------------------------------------
(* C31: if writing the credential file fails during setActiveProfileId(id), *)
(* the active pointer and the last pointer keep the values they had before *)
(* the call. The code does not keep this: both pointers are stored before  *)
(* syncCodexAuthFile is called, and nothing restores them when it throws.  *)
(* The call is made while no other call is in progress.                    *)
C31_FailedWriteKeepsPointers ==
    Settled =>
        \A id \in ProfileIds, io \in IoUnpruned :
            LET Failed(r) ==
                    r.threw =>
                        /\ ActivePointer(r.s) = ActivePointer(Cur)
                        /\ LastPointer(r.s) = LastPointer(Cur)
            IN Failed(setActiveProfileId(Cur, id, io))

-----------------------------------------------------------------------------
(* C32: deleteProfile never writes the credential file or its backups:     *)
(* after any delete, that of the active profile included, the file and the *)
(* backups are what they were before it and the id synced last is          *)
(* unchanged.                                                              *)
(* The call is made while no other call is in progress.                    *)
C32_DeleteLeavesAuthFile ==
    Settled =>
        \A id \in ProfileIds :
            LET Deleted(r) ==
                    /\ r.s.authFile = authFile
                    /\ r.s.backups = backups
                    /\ r.s.lastSyncedProfileId = lastSyncedProfileId
                    /\ ~r.threw
            IN Deleted(deleteProfile(Cur, id))

\* The active profile, whose tokens the credential file holds and which was
\* the one synced last, is deleted and the active pointer is cleared.
C32_Witness ==
    /\ Settled
    /\ \E id \in ProfileIds :
           LET Deleted(r) == r.ret /\ ActivePointer(r.s) = NoId
           IN /\ ActivePointer(Cur) = id
              /\ lastSyncedProfileId = id
              /\ backups # {}
              /\ HasTokens(Cur, id)
              /\ FileHoldsTokens(authFile, StoredTokens(Cur, id))
              /\ Deleted(deleteProfile(Cur, id))

=============================================================================
